---- MODULE Spec2Model ----
(***************************************************************************)
(* Reservation engine: create / update / cancel / approve / reject /      *)
(* expire-sweep handlers running concurrently over a reservation store,   *)
(* an idempotency-key store and a Redis-style lock service (SET NX PX /   *)
(* token-conditioned DEL).  Every handler is cut at its awaits that touch *)
(* mutable shared state, so that the interleavings of the code exist.     *)
(*                                                                         *)
(* Time is counted in minutes.  Instants are integers; an ISO string and  *)
(* its parsed instant are the same integer (all comparisons in the code   *)
(* go through new Date(..).getTime()).                                    *)
(***************************************************************************)
EXTENDS Integers, Sequences, FiniteSets, TLC

(* ---- bounds of the model ---- *)
MaxNow == 2
MaxRes == 2
MaxOps == 4

(* ---- program constants ---- *)
SLOT_MINUTES == 15
MAX_TABLES == 5
DAY_MINUTES == 1440
SLOT_FIT_MINUTES == 90
MS_PER_MINUTE == 60000

None == 0 - 1
NoKey == ""

Procs == {"w1", "w2"}

(* The restaurant row the handlers resolve (restaurants table). *)
Restaurant ==
  [ id |-> "R1",
    tzOffsetMinutes |-> 0,
    shifts |-> << [start |-> 0, end |-> 30], [start |-> 1425, end |-> 1439] >>,
    reservationDurationMinutes |-> 30,
    durationRules |-> << [maxPartySize |-> 4, durationMinutes |-> 30],
                         [maxPartySize |-> 2, durationMinutes |-> 15] >>,
    minAdvanceMinutes |-> None,
    maxAdvanceDays |-> None,
    largeGroupThreshold |-> 3,
    pendingHoldTTLMinutes |-> 1 ]

(* The sectors rows: S1 with the two tables T1 and T2, S2 with six small  *)
(* tables that seat larger parties only in combination.                   *)
Sectors == {"S1", "S2"}

(* A sectors row of another restaurant: X1 belongs to R2. *)
ForeignSectors == {"X1"}

(* The restaurantId column of a sectors row. *)
sectorRestaurantId(sectorId) ==
  IF sectorId \in ForeignSectors THEN "R2" ELSE Restaurant.id

(* getSectorById: the row is looked up by its id alone. *)
getSectorById(sectorId) == sectorId \in Sectors \cup ForeignSectors

(* The tables rows, in the order the store returns them. *)
Tables ==
  << [id |-> "T1", sectorId |-> "S1", minSize |-> 2, maxSize |-> 4],
     [id |-> "T2", sectorId |-> "S1", minSize |-> 2, maxSize |-> 4],
     [id |-> "U1", sectorId |-> "S2", minSize |-> 2, maxSize |-> 3],
     [id |-> "U2", sectorId |-> "S2", minSize |-> 1, maxSize |-> 2],
     [id |-> "U3", sectorId |-> "S2", minSize |-> 1, maxSize |-> 1],
     [id |-> "U4", sectorId |-> "S2", minSize |-> 1, maxSize |-> 1],
     [id |-> "U5", sectorId |-> "S2", minSize |-> 1, maxSize |-> 1],
     [id |-> "U6", sectorId |-> "S2", minSize |-> 1, maxSize |-> 1],
     [id |-> "X1T", sectorId |-> "X1", minSize |-> 1, maxSize |-> 4] >>

(* ---- inputs the requests are drawn from ---- *)
RequestSectors == {"S1"}
Parties == {2, 3}
Starts == {0, 5, 15, 30}
IdemKeys == {NoKey, "k1"}
GuestCaps == {None, 4}

(* pendingHoldTTLMinutes and maxGuestsPerSlot are columns of the           *)
(* restaurant row that differ between the restaurants checked.            *)
VARIABLES now, reservations, locks, idempotencyKeys, maxGuestsPerSlot,
          pendingHoldTTLMinutes, proc, resp, ops

vars == <<now, reservations, locks, idempotencyKeys, maxGuestsPerSlot,
          pendingHoldTTLMinutes, proc, resp, ops>>

ACTIVE == {"CONFIRMED", "PENDING"}

NoRes ==
  [ id |-> 0, restaurantId |-> "", sectorId |-> "", tableIds |-> {}, partySize |-> 0,
    start |-> None, startMs |-> 0, end |-> None, status |-> "",
    expiresAt |-> None, createdAt |-> None ]

Idle ==
  [ pc |-> "idle", kind |-> "", key |-> NoKey, id |-> 0, sectorId |-> "",
    partySize |-> 0, start |-> None, end |-> None, reassign |-> FALSE,
    racq |-> 0, sacq |-> 0, tableIds |-> {}, status |-> "",
    expiresAt |-> None, out |-> 0, detail |-> "", body |-> NoRes,
    undone |-> 0 ]

(* What a handler answered: status code, the error detail (which failure  *)
(* it was), the payload, the idempotency key the request carried, and      *)
(* whether the payload came from the idempotency store.                    *)
NoResp == [status |-> 0, detail |-> "", body |-> NoRes, key |-> NoKey, cached |-> FALSE]

Reply(code, body, key, cached) ==
  [status |-> code, detail |-> "", body |-> body, key |-> key, cached |-> cached]

Failure(code, detail, key) ==
  [status |-> code, detail |-> detail, body |-> NoRes, key |-> key, cached |-> FALSE]

(***************************************************************************)
(* utils/datetime                                                          *)
(***************************************************************************)
addMinutesToDate(t, m) == t + m

(* formatTime(toZonedTime(t, tz)): the local "HH:mm", kept as the minute   *)
(* of the local day (two "HH:mm" strings compare as their minutes do).     *)
formatTime(t) == (t + Restaurant.tzOffsetMinutes) % DAY_MINUTES

isWithinShift(t, shifts) ==
  IF Len(shifts) = 0 THEN TRUE
  ELSE \E i \in 1..Len(shifts) :
         formatTime(t) >= shifts[i].start /\ formatTime(t) < shifts[i].end

(* getZonedDayStartUTC: local midnight of calendar day `date` (days are    *)
(* counted from the day of instant 0), as an instant.                      *)
getZonedDayStartUTC(date) == date * DAY_MINUTES - Restaurant.tzOffsetMinutes

(* localTimeToUTC: the local time of day timeOfDay on calendar day date. *)
localTimeToUTC(date, timeOfDay) == getZonedDayStartUTC(date) + timeOfDay

(* eachMinuteOfInterval({start, end}, {step}) *)
eachMinuteOfInterval(startT, endT, step) ==
  IF endT < startT THEN << >>
  ELSE [k \in 1..((endT - startT) \div step + 1) |-> startT + (k - 1) * step]

RECURSIVE shiftSlots(_, _)
shiftSlots(date, shifts) ==
  IF Len(shifts) = 0 THEN << >>
  ELSE LET shiftStartUTC == localTimeToUTC(date, Head(shifts).start)
           shiftEndUTC == localTimeToUTC(date, Head(shifts).end)
           maxSlotStart == addMinutesToDate(shiftEndUTC, 0 - SLOT_FIT_MINUTES)
           actualEnd == IF shiftStartUTC > maxSlotStart THEN shiftStartUTC
                        ELSE maxSlotStart
       IN eachMinuteOfInterval(shiftStartUTC, actualEnd, SLOT_MINUTES)
            \o shiftSlots(date, Tail(shifts))

generate15MinSlots(date, shifts) ==
  IF Len(shifts) = 0
  THEN LET dayStartUTC == getZonedDayStartUTC(date)
       IN eachMinuteOfInterval(dayStartUTC,
             addMinutesToDate(dayStartUTC, DAY_MINUTES - SLOT_FIT_MINUTES),
             SLOT_MINUTES)
  ELSE shiftSlots(date, shifts)

(***************************************************************************)
(* utils/duration                                                          *)
(***************************************************************************)
RECURSIVE sortRules(_)
sortRules(rules) ==
  IF Len(rules) = 0 THEN << >>
  ELSE LET i == CHOOSE i \in 1..Len(rules) :
                  \A j \in 1..Len(rules) :
                     \/ rules[j].maxPartySize > rules[i].maxPartySize
                     \/ (rules[j].maxPartySize = rules[i].maxPartySize /\ j >= i)
           rest == [k \in 1..(Len(rules) - 1) |->
                      IF k < i THEN rules[k] ELSE rules[k + 1]]
       IN <<rules[i]>> \o sortRules(rest)

calculateReservationDuration(partySize, durationRules, defaultDurationMinutes) ==
  IF Len(durationRules) = 0 THEN defaultDurationMinutes
  ELSE LET sortedRules == sortRules(durationRules)
           fits == {i \in 1..Len(sortedRules) :
                      partySize <= sortedRules[i].maxPartySize}
       IN IF fits # {}
          THEN sortedRules[CHOOSE i \in fits : \A j \in fits : i <= j].durationMinutes
          ELSE sortedRules[Len(sortedRules)].durationMinutes

DurationOf(partySize) ==
  calculateReservationDuration(partySize, Restaurant.durationRules,
                               Restaurant.reservationDurationMinutes)

(***************************************************************************)
(* utils/booking-policy                                                    *)
(***************************************************************************)
validateAdvanceBooking(start, minAdvanceMinutes, maxAdvanceDays, nowT) ==
  IF minAdvanceMinutes # None /\ start - nowT < minAdvanceMinutes THEN FALSE
  ELSE IF maxAdvanceDays # None /\ start - nowT > maxAdvanceDays * 24 * 60 THEN FALSE
  ELSE IF start < nowT THEN FALSE
  ELSE TRUE

(***************************************************************************)
(* repositories                                                            *)
(***************************************************************************)
getTablesBySector(sectorId) ==
  SelectSeq(Tables, LAMBDA t : t.sectorId = sectorId)

getEligibleTables(sectorId, partySize) ==
  SelectSeq(Tables, LAMBDA t : /\ t.sectorId = sectorId
                               /\ t.minSize <= partySize
                               /\ t.maxSize >= partySize)

(* new Date(iso).getTime(): the instant in milliseconds.  A stored start   *)
(* is a whole minute plus startMs milliseconds.                            *)
getTime(minutes, ms) == minutes * MS_PER_MINUTE + ms

(* getReservationsByDay: ids of the CONFIRMED or PENDING reservations (of   *)
(* the sector, if one is given) whose start lies in the calendar day.  The *)
(* day ends one millisecond before the next local midnight, and the        *)
(* comparison with that end is strict.                                     *)
getReservationsByDay(rs, date, sectorId) ==
  LET dayStartTime == getTime(getZonedDayStartUTC(date), 0)
      dayEndTime == dayStartTime + getTime(DAY_MINUTES, 0) - 1
  IN {i \in 1..Len(rs) :
        /\ rs[i].status \in ACTIVE
        /\ (sectorId # "" => rs[i].sectorId = sectorId)
        /\ getTime(rs[i].start, rs[i].startMs) >= dayStartTime
        /\ getTime(rs[i].start, rs[i].startMs) < dayEndTime}

(* An overlap query that does not look at the status. *)
getOverlappingReservations_AnyStatus(rs, tableIds, startT, endT, excludeReservationId) ==
  {i \in 1..Len(rs) :
     /\ (excludeReservationId # 0 => i # excludeReservationId)
     /\ rs[i].start < endT /\ rs[i].end > startT
     /\ rs[i].tableIds \cap tableIds # {}}

(* An overlap query on closed intervals: touching intervals overlap. *)
getOverlappingReservations_Closed(rs, tableIds, startT, endT, excludeReservationId) ==
  {i \in 1..Len(rs) :
     /\ rs[i].status \in ACTIVE
     /\ (excludeReservationId # 0 => i # excludeReservationId)
     /\ rs[i].start <= endT /\ rs[i].end >= startT
     /\ rs[i].tableIds \cap tableIds # {}}

(* Ids of the CONFIRMED or PENDING reservations, other than the excluded   *)
(* one, that overlap [startT, endT) and use one of tableIds.               *)
getOverlappingReservations(rs, tableIds, startT, endT, excludeReservationId) ==
  {i \in 1..Len(rs) :
     /\ rs[i].status \in ACTIVE
     /\ (excludeReservationId # 0 => i # excludeReservationId)
     /\ rs[i].start < endT /\ rs[i].end > startT
     /\ rs[i].tableIds \cap tableIds # {}}

(* The restaurant-scoped overlap query used for the guest cap.            *)
getOverlappingReservationsForRestaurant(rs, startT, endT, excludeReservationId) ==
  {i \in 1..Len(rs) :
     /\ rs[i].status \in ACTIVE
     /\ (excludeReservationId # 0 => i # excludeReservationId)
     /\ rs[i].start < endT /\ rs[i].end > startT}

RECURSIVE SumParty(_, _)
SumParty(rs, ids) ==
  IF ids = {} THEN 0
  ELSE LET i == CHOOSE i \in ids : TRUE
       IN rs[i].partySize + SumParty(rs, ids \ {i})

(***************************************************************************)
(* services/table-assignment                                               *)
(***************************************************************************)
RemoveAt(s, i) == [k \in 1..(Len(s) - 1) |-> IF k < i THEN s[k] ELSE s[k + 1]]

(* The eligible tables left in the order the store returned them. *)
sortBestFit_Unsorted(ts, partySize) == ts

(* eligibleTables.sort((a, b) => (a.maxSize - p) - (b.maxSize - p)), stable *)
RECURSIVE sortBestFit(_, _)
sortBestFit(ts, partySize) ==
  IF Len(ts) = 0 THEN << >>
  ELSE LET i == CHOOSE i \in 1..Len(ts) :
                  \A j \in 1..Len(ts) :
                     \/ ts[j].maxSize - partySize > ts[i].maxSize - partySize
                     \/ (ts[j].maxSize = ts[i].maxSize /\ j >= i)
       IN <<ts[i]>> \o sortBestFit(RemoveAt(ts, i), partySize)

(* candidateTables.sort((a, b) => b.maxSize - a.maxSize), stable *)
RECURSIVE sortCandidates(_)
sortCandidates(ts) ==
  IF Len(ts) = 0 THEN << >>
  ELSE LET i == CHOOSE i \in 1..Len(ts) :
                  \A j \in 1..Len(ts) :
                     \/ ts[j].maxSize < ts[i].maxSize
                     \/ (ts[j].maxSize = ts[i].maxSize /\ j >= i)
       IN <<ts[i]>> \o sortCandidates(RemoveAt(ts, i))

(* The k-element combinations of arr (as sequences of tables), in the      *)
(* order the generator yields them.                                        *)
RECURSIVE generateCombinations(_, _)
RECURSIVE combinationsFrom(_, _, _)
generateCombinations(arr, k) ==
  IF k = 1 THEN [i \in 1..Len(arr) |-> <<arr[i]>>]
  ELSE combinationsFrom(arr, k, 1)

combinationsFrom(arr, k, i) ==
  IF i > Len(arr) - k + 1 THEN << >>
  ELSE LET rest == SubSeq(arr, i + 1, Len(arr))
           sub == generateCombinations(rest, k - 1)
       IN [j \in 1..Len(sub) |-> <<arr[i]>> \o sub[j]] \o combinationsFrom(arr, k, i + 1)

RECURSIVE SumMin(_)
SumMin(c) == IF Len(c) = 0 THEN 0 ELSE Head(c).minSize + SumMin(Tail(c))
RECURSIVE SumMax(_)
SumMax(c) == IF Len(c) = 0 THEN 0 ELSE Head(c).maxSize + SumMax(Tail(c))
IdsOf(c) == {c[i].id : i \in 1..Len(c)}

(* The table ids of the first combination of numTables tables that has the *)
(* capacity and is free; {} when there is none.                            *)
findTableCombination(rs, candidateTables, partySize, numTables, startT, endT, excludeReservationId) ==
  LET combos == generateCombinations(candidateTables, numTables)
      ok == {j \in 1..Len(combos) :
               /\ ~(SumMin(combos[j]) > partySize \/ SumMax(combos[j]) < partySize)
               /\ getOverlappingReservations(rs, IdsOf(combos[j]), startT, endT,
                                             excludeReservationId) = {}}
  IN IF ok = {} THEN {}
     ELSE IdsOf(combos[CHOOSE j \in ok : \A m \in ok : j <= m])

(* A loop over the combination sizes that does not stop at maxTables. *)
RECURSIVE tryCombinations_NoLimit(_, _, _, _, _, _, _, _)
tryCombinations_NoLimit(rs, sortedCandidates, partySize, numTables, maxTables, startT, endT, excludeReservationId) ==
  IF ~(numTables <= Len(sortedCandidates)) THEN {}
  ELSE LET combination == findTableCombination(rs, sortedCandidates, partySize,
                                               numTables, startT, endT,
                                               excludeReservationId)
       IN IF combination # {} THEN combination
          ELSE tryCombinations_NoLimit(rs, sortedCandidates, partySize, numTables + 1,
                                       maxTables, startT, endT, excludeReservationId)

RECURSIVE tryCombinations(_, _, _, _, _, _, _, _)
tryCombinations(rs, sortedCandidates, partySize, numTables, maxTables, startT, endT, excludeReservationId) ==
  IF ~(numTables <= maxTables /\ numTables <= Len(sortedCandidates)) THEN {}
  ELSE LET combination == findTableCombination(rs, sortedCandidates, partySize,
                                               numTables, startT, endT,
                                               excludeReservationId)
       IN IF combination # {} THEN combination
          ELSE tryCombinations(rs, sortedCandidates, partySize, numTables + 1,
                               maxTables, startT, endT, excludeReservationId)

(* An assignTable that gives up after the single-table pass. *)
assignTable_SingleOnly(rs, sectorId, startT, partySize, reservationDurationMinutes, excludeReservationId) ==
  LET endT == addMinutesToDate(startT, reservationDurationMinutes)
      sortedTables == sortBestFit(getEligibleTables(sectorId, partySize), partySize)
      free == {i \in 1..Len(sortedTables) :
                 getOverlappingReservations(rs, {sortedTables[i].id}, startT, endT,
                                            excludeReservationId) = {}}
  IN IF free # {}
     THEN {sortedTables[CHOOSE i \in free : \A j \in free : i <= j].id}
     ELSE {}

(* The body of assignTable on the rows its two table queries returned, in  *)
(* the order they returned them: the set of table ids, {} for null.        *)
assignFrom(rs, eligibleTables, allTables, startT, partySize, reservationDurationMinutes, excludeReservationId) ==
  LET endT == addMinutesToDate(startT, reservationDurationMinutes)
      sortedTables == sortBestFit(eligibleTables, partySize)
      free == {i \in 1..Len(sortedTables) :
                 getOverlappingReservations(rs, {sortedTables[i].id}, startT, endT,
                                            excludeReservationId) = {}}
      candidateTables == SelectSeq(allTables, LAMBDA t : t.minSize <= partySize)
  IN IF free # {}
     THEN {sortedTables[CHOOSE i \in free : \A j \in free : i <= j].id}
     ELSE IF Len(allTables) = 0 \/ Len(candidateTables) = 0 THEN {}
     ELSE tryCombinations(rs, sortCandidates(candidateTables), partySize, 2,
                          MAX_TABLES, startT, endT, excludeReservationId)

(* assignTable, the tables read in the order they were inserted. *)
assignTable(rs, sectorId, startT, partySize, reservationDurationMinutes, excludeReservationId) ==
  assignFrom(rs, getEligibleTables(sectorId, partySize), getTablesBySector(sectorId),
             startT, partySize, reservationDurationMinutes, excludeReservationId)

(***************************************************************************)
(* services/availability                                                   *)
(***************************************************************************)
(* Does a reservation of allReservations overlap the slot on one of ids? *)
hasOverlap(rs, allReservations, ids, slotStartTime, slotEndTime) ==
  \E i \in allReservations :
     /\ rs[i].start < slotEndTime /\ rs[i].end > slotStartTime
     /\ rs[i].tableIds \cap ids # {}

findAvailableCombination(rs, allReservations, candidateTables, partySize, numTables, slotStartTime, slotEndTime) ==
  LET combos == generateCombinations(candidateTables, numTables)
      ok == {j \in 1..Len(combos) :
               /\ ~(SumMin(combos[j]) > partySize \/ SumMax(combos[j]) < partySize)
               /\ ~hasOverlap(rs, allReservations, IdsOf(combos[j]),
                              slotStartTime, slotEndTime)}
  IN IF ok = {} THEN {}
     ELSE IdsOf(combos[CHOOSE j \in ok : \A m \in ok : j <= m])

RECURSIVE foundCombination(_, _, _, _, _, _, _)
foundCombination(rs, allReservations, candidateTables, partySize, numTables, slotStartTime, slotEndTime) ==
  IF ~(numTables <= MAX_TABLES /\ numTables <= Len(candidateTables)) THEN {}
  ELSE LET combination == findAvailableCombination(rs, allReservations, candidateTables,
                              partySize, numTables, slotStartTime, slotEndTime)
       IN IF combination # {} THEN combination
          ELSE foundCombination(rs, allReservations, candidateTables, partySize,
                                numTables + 1, slotStartTime, slotEndTime)

(* The entry of the report for one slot. *)
availabilitySlot(rs, allReservations, tables, partySize, slotStart) ==
  LET slotEnd == addMinutesToDate(slotStart, DurationOf(partySize))
      eligibleTables == SelectSeq(tables, LAMBDA t : t.minSize <= partySize
                                                     /\ partySize <= t.maxSize)
      availableSingleTables ==
         {eligibleTables[k].id : k \in
            {k \in 1..Len(eligibleTables) :
               ~hasOverlap(rs, allReservations, {eligibleTables[k].id},
                           slotStart, slotEnd)}}
      candidateTables == SelectSeq(tables, LAMBDA t : t.minSize <= partySize)
      combination == foundCombination(rs, allReservations, candidateTables, partySize,
                                      2, slotStart, slotEnd)
  IN IF availableSingleTables # {}
     THEN [start |-> slotStart, available |-> TRUE, tables |-> availableSingleTables]
     ELSE IF combination # {}
     THEN [start |-> slotStart, available |-> TRUE, tables |-> combination]
     ELSE [start |-> slotStart, available |-> FALSE, tables |-> {}]

(* getAvailability for a sector that has tables: the entries of the slots  *)
(* of the day that are not in the past and lie within a shift.             *)
getAvailability(rs, sectorId, date, partySize, nowT) ==
  LET tables == getTablesBySector(sectorId)
      allReservations == getReservationsByDay(rs, date, sectorId)
      slots == SelectSeq(generate15MinSlots(date, Restaurant.shifts),
                         LAMBDA t : ~(t < nowT) /\ isWithinShift(t, Restaurant.shifts))
  IN [k \in 1..Len(slots) |->
        availabilitySlot(rs, allReservations, tables, partySize, slots[k])]

(***************************************************************************)
(* utils/locks                                                             *)
(***************************************************************************)
RECURSIVE get15MinSlotsInRange(_, _)
get15MinSlotsInRange(startT, endT) ==
  IF startT < endT
  THEN <<startT>> \o get15MinSlotsInRange(addMinutesToDate(startT, SLOT_MINUTES), endT)
  ELSE << >>

lockKey(sectorId, slot) == <<"sector", sectorId, slot>>
restaurantLockKey(restaurantId, slot) == <<"restaurant", restaurantId, slot>>

(* keys.sort(): the keys of one acquisition differ only in the slot's UTC  *)
(* ISO string, whose string order is the order of the instants.           *)
(* A sort whose direction depends on the number of keys. *)
sortKeys_ByLength(keys) ==
  IF Len(keys) > 2
  THEN [i \in 1..Len(keys) |-> keys[Len(keys) + 1 - i]]
  ELSE keys

RECURSIVE sortKeys(_)
sortKeys(keys) ==
  IF Len(keys) = 0 THEN << >>
  ELSE LET i == CHOOSE i \in 1..Len(keys) :
                  \A j \in 1..Len(keys) : keys[i][3] <= keys[j][3]
       IN <<keys[i]>> \o sortKeys(RemoveAt(keys, i))

sectorKeys(sectorId, startT, endT) ==
  LET slots == get15MinSlotsInRange(startT, endT)
  IN sortKeys([i \in 1..Len(slots) |-> lockKey(sectorId, slots[i])])

restaurantKeys(restaurantId, startT, endT) ==
  LET slots == get15MinSlotsInRange(startT, endT)
  IN sortKeys([i \in 1..Len(slots) |-> restaurantLockKey(restaurantId, slots[i])])

(* redis.set(key, token, 'PX', ttl, 'NX') *)
SetNX(l, key, token) == IF key \in DOMAIN l THEN l ELSE l @@ (key :> token)

(* A release that deletes the key without comparing its value. *)
RELEASE_SCRIPT_Unconditional(l, key, token) ==
  [k \in DOMAIN l \ {key} |-> l[k]]

(* RELEASE_SCRIPT: delete the key only if its value equals the token. *)
RELEASE_SCRIPT(l, key, token) ==
  IF key \in DOMAIN l /\ l[key] = token
  THEN [k \in DOMAIN l \ {key} |-> l[k]]
  ELSE l

(* A release loop that deletes nothing. *)
releaseKeys_Nothing(l, acquired, token) == l

RECURSIVE releaseKeys(_, _, _)
releaseKeys(l, acquired, token) ==
  IF Len(acquired) = 0 THEN l
  ELSE releaseKeys(RELEASE_SCRIPT(l, Head(acquired), token), Tail(acquired), token)

(***************************************************************************)
(* services/pending-holds: the sweep                                       *)
(***************************************************************************)
(* A sweep that also takes the holds that expire at nowT itself. *)
ExpiredHolds_Inclusive(rs, nowT) ==
  {i \in 1..Len(rs) : /\ rs[i].status = "PENDING"
                      /\ rs[i].expiresAt # None
                      /\ rs[i].expiresAt <= nowT}

(* Ids the sweep cancels at time nowT. *)
ExpiredHolds(rs, nowT) ==
  {i \in 1..Len(rs) : /\ rs[i].status = "PENDING"
                      /\ rs[i].expiresAt # None
                      /\ rs[i].expiresAt < nowT}

(* expirePendingHolds: updateReservation(id, {status: 'CANCELLED'}) on each *)
(* expired hold; expiresAt is not part of the patch.                       *)
expirePendingHolds(rs, nowT) ==
  [i \in 1..Len(rs) |->
     IF i \in ExpiredHolds(rs, nowT) THEN [rs[i] EXCEPT !.status = "CANCELLED"]
     ELSE rs[i]]

(***************************************************************************)
(* State                                                                   *)
(***************************************************************************)
(* An empty store, no lock, no request in flight, and a restaurant whose    *)
(* maxGuestsPerSlot is one of caps and pendingHoldTTLMinutes one of ttls.  *)
InitConfig(caps, ttls) ==
  /\ now = 0
  /\ reservations = << >>
  /\ locks = << >>
  /\ idempotencyKeys = << >>
  /\ maxGuestsPerSlot \in caps
  /\ pendingHoldTTLMinutes \in ttls
  /\ proc = [p \in Procs |-> Idle]
  /\ resp = [p \in Procs |-> NoResp]
  /\ ops = 0

(* The restaurant of the seed: pendingHoldTTLMinutes as in Restaurant. *)
InitWith(caps) == InitConfig(caps, {Restaurant.pendingHoldTTLMinutes})

Init == InitWith(GuestCaps)

(* The restaurant has a guest cap. *)
InitCapped == InitWith(GuestCaps \ {None})

CanBegin(p) == proc[p].pc = "idle" /\ ops < MaxOps

Creating == {p \in Procs : proc[p].kind = "create"}

(* The phase that follows validation: restaurant locks only with a cap. *)
FirstLockPhase == IF maxGuestsPerSlot # None THEN "rlock" ELSE "slock"
AfterLocks == IF maxGuestsPerSlot # None THEN "guest" ELSE "assign"

Finish(p, r) ==
  /\ proc' = [proc EXCEPT ![p] = Idle]
  /\ resp' = [resp EXCEPT ![p] = r]

(***************************************************************************)
(* POST /reservations up to the first lock: idempotency lookup, then       *)
(* createReservationService steps 1-4.                                     *)
(***************************************************************************)
CreateBegin(p, key, sectorId, partySize, start) ==
  /\ CanBegin(p)
  /\ Len(reservations) + Cardinality(Creating) < MaxRes
  /\ ops' = ops + 1
  /\ UNCHANGED <<now, reservations, locks, idempotencyKeys, maxGuestsPerSlot, pendingHoldTTLMinutes>>
  /\ IF key # NoKey /\ key \in DOMAIN idempotencyKeys
     THEN Finish(p, Reply(201, idempotencyKeys[key], key, TRUE))
     ELSE IF ~getSectorById(sectorId)
     THEN Finish(p, Reply(404, NoRes, key, FALSE))
     ELSE IF ~isWithinShift(start, Restaurant.shifts)
     THEN Finish(p, Reply(422, NoRes, key, FALSE))
     ELSE IF ~validateAdvanceBooking(start, Restaurant.minAdvanceMinutes,
                                     Restaurant.maxAdvanceDays, now)
     THEN Finish(p, Reply(400, NoRes, key, FALSE))
     ELSE /\ proc' = [proc EXCEPT ![p] =
                  [Idle EXCEPT !.pc = FirstLockPhase, !.kind = "create", !.key = key,
                               !.sectorId = sectorId, !.partySize = partySize,
                               !.start = start,
                               !.end = addMinutesToDate(start, DurationOf(partySize))]]
          /\ resp' = [resp EXCEPT ![p] = NoResp]

(***************************************************************************)
(* PATCH /reservations/:id up to the first lock.  dSector = "", dParty = 0 *)
(* and dStart = None stand for fields absent from the body.                *)
(***************************************************************************)
UpdateBegin(p, key, id, dSector, dParty, dStart) ==
  /\ CanBegin(p)
  /\ ops' = ops + 1
  /\ UNCHANGED <<now, reservations, locks, idempotencyKeys, maxGuestsPerSlot, pendingHoldTTLMinutes>>
  /\ IF key # NoKey /\ key \in DOMAIN idempotencyKeys
     THEN Finish(p, Reply(200, idempotencyKeys[key], key, TRUE))
     ELSE IF id > Len(reservations)
     THEN Finish(p, Reply(404, NoRes, key, FALSE))
     ELSE LET existingReservation == reservations[id]
              newSectorId == IF dSector # "" THEN dSector ELSE existingReservation.sectorId
              newPartySize == IF dParty # 0 THEN dParty ELSE existingReservation.partySize
              newStart == IF dStart # None THEN dStart ELSE existingReservation.start
              needsReassignment ==
                 \/ dStart # None
                 \/ dSector # ""
                 \/ (dParty # 0 /\ dParty # existingReservation.partySize)
          IN IF existingReservation.status = "CANCELLED"
             THEN Finish(p, Failure(400, "cannot update a cancelled reservation", key))
             ELSE IF dSector # "" /\ dSector # existingReservation.sectorId
                     /\ ~getSectorById(dSector)
             THEN Finish(p, Reply(404, NoRes, key, FALSE))
             ELSE IF dStart # None /\ ~isWithinShift(newStart, Restaurant.shifts)
             THEN Finish(p, Reply(422, NoRes, key, FALSE))
             ELSE IF dStart # None
                     /\ ~validateAdvanceBooking(newStart, Restaurant.minAdvanceMinutes,
                                                Restaurant.maxAdvanceDays, now)
             THEN Finish(p, Reply(400, NoRes, key, FALSE))
             ELSE /\ proc' = [proc EXCEPT ![p] =
                       [Idle EXCEPT !.pc = FirstLockPhase, !.kind = "update",
                                    !.key = key, !.id = id,
                                    !.sectorId = newSectorId,
                                    !.partySize = newPartySize,
                                    !.start = newStart,
                                    !.end = addMinutesToDate(newStart,
                                                             DurationOf(newPartySize)),
                                    !.reassign = needsReassignment,
                                    !.tableIds = existingReservation.tableIds]]
                  /\ resp' = [resp EXCEPT ![p] = NoResp]

(***************************************************************************)
(* acquireRestaurantReservationLocks: one SET NX per step.  racq is the    *)
(* length of `acquired`, a prefix of the sorted keys.                      *)
(***************************************************************************)
AcquireRestaurantLock(p) ==
  /\ proc[p].pc = "rlock"
  /\ LET keys == restaurantKeys(Restaurant.id, proc[p].start, proc[p].end)
         n == proc[p].racq
         key == keys[n + 1]
     IN IF key \notin DOMAIN locks
        THEN /\ locks' = SetNX(locks, key, p)
             /\ proc' = [proc EXCEPT ![p].racq = n + 1,
                                     ![p].pc = IF n + 1 = Len(keys) THEN "slock"
                                               ELSE "rlock"]
             /\ UNCHANGED resp
        ELSE /\ locks' = releaseKeys(locks, SubSeq(keys, 1, n), p)
             /\ Finish(p, Failure(409, "lock busy (time)", proc[p].key))
  /\ UNCHANGED <<now, reservations, idempotencyKeys, maxGuestsPerSlot, pendingHoldTTLMinutes, ops>>

(***************************************************************************)
(* acquireReservationLocks.  It is called outside the try/finally of the   *)
(* service, so its NO_CAPACITY leaves the service at once.                 *)
(***************************************************************************)
AcquireSectorLock(p) ==
  /\ proc[p].pc = "slock"
  /\ LET keys == sectorKeys(proc[p].sectorId, proc[p].start, proc[p].end)
         n == proc[p].sacq
         key == keys[n + 1]
     IN IF key \notin DOMAIN locks
        THEN /\ locks' = SetNX(locks, key, p)
             /\ proc' = [proc EXCEPT ![p].sacq = n + 1,
                                     ![p].pc = IF n + 1 = Len(keys) THEN AfterLocks
                                               ELSE "slock"]
             /\ UNCHANGED resp
        ELSE /\ locks' = releaseKeys(locks, SubSeq(keys, 1, n), p)
             /\ Finish(p, Failure(409, "lock busy (slot)", proc[p].key))
  /\ UNCHANGED <<now, reservations, idempotencyKeys, maxGuestsPerSlot, pendingHoldTTLMinutes, ops>>

(***************************************************************************)
(* Inside the try: the guest cap.                                          *)
(***************************************************************************)
GuestCheck(p) ==
  /\ proc[p].pc = "guest"
  /\ LET overlapping == getOverlappingReservationsForRestaurant(
                           reservations, proc[p].start, proc[p].end,
                           IF proc[p].kind = "update" THEN proc[p].id ELSE 0)
         currentGuests == SumParty(reservations, overlapping)
     IN IF currentGuests + proc[p].partySize > maxGuestsPerSlot
        THEN proc' = [proc EXCEPT ![p].pc = "release", ![p].out = 409,
                                  ![p].detail = "guest limit"]
        ELSE proc' = [proc EXCEPT ![p].pc = "assign"]
  /\ UNCHANGED <<now, reservations, locks, idempotencyKeys, maxGuestsPerSlot, pendingHoldTTLMinutes, resp, ops>>

(***************************************************************************)
(* assignTable, and for a create the status decision that follows it.      *)
(***************************************************************************)
AssignStep(p) ==
  /\ proc[p].pc = "assign"
  /\ LET duration == DurationOf(proc[p].partySize)
         isLargeGroup == /\ Restaurant.largeGroupThreshold # None
                         /\ proc[p].partySize >= Restaurant.largeGroupThreshold
         pending == /\ isLargeGroup
                    /\ pendingHoldTTLMinutes # None
                    /\ pendingHoldTTLMinutes # 0
     IN IF proc[p].kind = "create"
        THEN LET tableIds == assignTable(reservations, proc[p].sectorId, proc[p].start,
                                         proc[p].partySize, duration, 0)
             IN IF tableIds = {}
                THEN proc' = [proc EXCEPT ![p].pc = "release", ![p].out = 409,
                                          ![p].detail = "no table"]
                ELSE proc' = [proc EXCEPT
                        ![p].pc = "expire",
                        ![p].tableIds = tableIds,
                        ![p].status = IF pending THEN "PENDING" ELSE "CONFIRMED",
                        ![p].expiresAt =
                           IF pending
                           THEN addMinutesToDate(now, pendingHoldTTLMinutes)
                           ELSE None]
        ELSE IF proc[p].reassign
        THEN LET assigned == assignTable(reservations, proc[p].sectorId, proc[p].start,
                                         proc[p].partySize, duration, proc[p].id)
             IN IF assigned = {}
                THEN proc' = [proc EXCEPT ![p].pc = "release", ![p].out = 409,
                                          ![p].detail = "no table"]
                ELSE proc' = [proc EXCEPT ![p].pc = "write", ![p].tableIds = assigned]
        ELSE proc' = [proc EXCEPT ![p].pc = "write"]
  /\ UNCHANGED <<now, reservations, locks, idempotencyKeys, maxGuestsPerSlot, pendingHoldTTLMinutes, resp, ops>>

(* Step 11 of create: the sweep of expired holds, after the assignment. *)
CreateExpire(p) ==
  /\ proc[p].pc = "expire"
  /\ reservations' = expirePendingHolds(reservations, now)
  /\ proc' = [proc EXCEPT ![p].pc = "insert"]
  /\ UNCHANGED <<now, locks, idempotencyKeys, maxGuestsPerSlot, pendingHoldTTLMinutes, resp, ops>>

(* Step 12 of create: createReservation; the response is built from it. *)
CreateInsert(p) ==
  /\ proc[p].pc = "insert"
  /\ LET row == [ id |-> Len(reservations) + 1,
                  restaurantId |-> Restaurant.id,
                  sectorId |-> proc[p].sectorId,
                  tableIds |-> proc[p].tableIds,
                  partySize |-> proc[p].partySize,
                  start |-> proc[p].start,
                  startMs |-> 0,
                  end |-> proc[p].end,
                  status |-> proc[p].status,
                  expiresAt |-> proc[p].expiresAt,
                  createdAt |-> now ]
     IN /\ reservations' = Append(reservations, row)
        /\ proc' = [proc EXCEPT ![p].pc = "release", ![p].id = row.id, ![p].body = row]
  /\ UNCHANGED <<now, locks, idempotencyKeys, maxGuestsPerSlot, pendingHoldTTLMinutes, resp, ops>>

(* An update that writes the new start and party size but leaves the      *)
(* stored end as it was.                                                   *)
UpdateWrite_KeepsEnd(p) ==
  /\ proc[p].pc = "write"
  /\ LET row == [reservations[proc[p].id] EXCEPT
                    !.sectorId = proc[p].sectorId,
                    !.tableIds = proc[p].tableIds,
                    !.partySize = proc[p].partySize,
                    !.start = proc[p].start]
     IN /\ reservations' = [reservations EXCEPT ![proc[p].id] = row]
        /\ proc' = [proc EXCEPT ![p].pc = "release", ![p].body = row]
  /\ UNCHANGED <<now, locks, idempotencyKeys, maxGuestsPerSlot, pendingHoldTTLMinutes, resp, ops>>

(* updateReservation(id, {...}) followed by the read of the updated row. *)
UpdateWrite(p) ==
  /\ proc[p].pc = "write"
  /\ LET row == [reservations[proc[p].id] EXCEPT
                    !.sectorId = proc[p].sectorId,
                    !.tableIds = proc[p].tableIds,
                    !.partySize = proc[p].partySize,
                    !.start = proc[p].start,
                    !.end = proc[p].end]
     IN /\ reservations' = [reservations EXCEPT ![proc[p].id] = row]
        /\ proc' = [proc EXCEPT ![p].pc = "release", ![p].body = row]
  /\ UNCHANGED <<now, locks, idempotencyKeys, maxGuestsPerSlot, pendingHoldTTLMinutes, resp, ops>>

(***************************************************************************)
(* finally { await releaseSectorLock(); await releaseRestaurantLock(); }   *)
(* and the return to the route.                                            *)
(***************************************************************************)
OkCode(p) == IF proc[p].kind = "create" THEN 201 ELSE 200

ReleaseLocks_StoresFailure(p) ==
  /\ proc[p].pc = "release"
  /\ LET sKeys == sectorKeys(proc[p].sectorId, proc[p].start, proc[p].end)
         rKeys == restaurantKeys(Restaurant.id, proc[p].start, proc[p].end)
         l1 == releaseKeys(locks, SubSeq(sKeys, 1, proc[p].sacq), p)
     IN locks' = releaseKeys(l1, SubSeq(rKeys, 1, proc[p].racq), p)
  /\ IF proc[p].out # 0
     THEN /\ Finish(p, Failure(proc[p].out, proc[p].detail, proc[p].key))
          /\ IF proc[p].key # NoKey /\ proc[p].key \notin DOMAIN idempotencyKeys
             THEN idempotencyKeys' = idempotencyKeys @@ (proc[p].key :> NoRes)
             ELSE UNCHANGED idempotencyKeys
     ELSE IF proc[p].key # NoKey
     THEN /\ proc' = [proc EXCEPT ![p].pc = "store"]
          /\ UNCHANGED <<resp, idempotencyKeys>>
     ELSE /\ Finish(p, Reply(OkCode(p), proc[p].body, NoKey, FALSE))
          /\ UNCHANGED idempotencyKeys
  /\ UNCHANGED <<now, reservations, maxGuestsPerSlot, pendingHoldTTLMinutes, ops>>

ReleaseLocks(p) ==
  /\ proc[p].pc = "release"
  /\ LET sKeys == sectorKeys(proc[p].sectorId, proc[p].start, proc[p].end)
         rKeys == restaurantKeys(Restaurant.id, proc[p].start, proc[p].end)
         l1 == releaseKeys(locks, SubSeq(sKeys, 1, proc[p].sacq), p)
     IN locks' = releaseKeys(l1, SubSeq(rKeys, 1, proc[p].racq), p)
  /\ IF proc[p].out # 0
     THEN Finish(p, Failure(proc[p].out, proc[p].detail, proc[p].key))
     ELSE IF proc[p].key # NoKey
     THEN /\ proc' = [proc EXCEPT ![p].pc = "store"]
          /\ UNCHANGED resp
     ELSE Finish(p, Reply(OkCode(p), proc[p].body, NoKey, FALSE))
  /\ UNCHANGED <<now, reservations, idempotencyKeys, maxGuestsPerSlot, pendingHoldTTLMinutes, ops>>

(* A route that answers without storing the response under the key. *)
StoreIdempotency_NotStored(p) ==
  /\ proc[p].pc = "store"
  /\ Finish(p, Reply(OkCode(p), proc[p].body, proc[p].key, FALSE))
  /\ UNCHANGED <<now, reservations, locks, idempotencyKeys, maxGuestsPerSlot, pendingHoldTTLMinutes, ops>>

(* storeIdempotencyResponse: an INSERT on the primary key `key`; a second  *)
(* insert of the key throws, which the route turns into a 500.             *)
StoreIdempotency(p) ==
  /\ proc[p].pc = "store"
  /\ IF proc[p].key \in DOMAIN idempotencyKeys
     THEN /\ UNCHANGED idempotencyKeys
          /\ Finish(p, Reply(500, NoRes, proc[p].key, FALSE))
     ELSE /\ idempotencyKeys' = idempotencyKeys @@ (proc[p].key :> proc[p].body)
          /\ Finish(p, Reply(OkCode(p), proc[p].body, proc[p].key, FALSE))
  /\ UNCHANGED <<now, reservations, locks, maxGuestsPerSlot, pendingHoldTTLMinutes, ops>>

(***************************************************************************)
(* DELETE /reservations/:id                                                *)
(***************************************************************************)
CancelBegin_ClearsHold(p, id) ==
  /\ CanBegin(p)
  /\ ops' = ops + 1
  /\ IF id > Len(reservations)
     THEN /\ Finish(p, Reply(404, NoRes, NoKey, FALSE))
          /\ UNCHANGED reservations
     ELSE IF reservations[id].status = "CANCELLED"
     THEN /\ reservations' = [reservations EXCEPT ![id].expiresAt = None]
          /\ Finish(p, Reply(204, NoRes, NoKey, FALSE))
     ELSE /\ proc' = [proc EXCEPT ![p] = [Idle EXCEPT !.pc = "cancel",
                                                       !.kind = "cancel", !.id = id]]
          /\ resp' = [resp EXCEPT ![p] = NoResp]
          /\ UNCHANGED reservations
  /\ UNCHANGED <<now, locks, idempotencyKeys, maxGuestsPerSlot, pendingHoldTTLMinutes>>

CancelBegin(p, id) ==
  /\ CanBegin(p)
  /\ ops' = ops + 1
  /\ IF id > Len(reservations)
     THEN Finish(p, Reply(404, NoRes, NoKey, FALSE))
     ELSE IF reservations[id].status = "CANCELLED"
     THEN Finish(p, Reply(204, NoRes, NoKey, FALSE))
     ELSE /\ proc' = [proc EXCEPT ![p] = [Idle EXCEPT !.pc = "cancel",
                                                       !.kind = "cancel", !.id = id]]
          /\ resp' = [resp EXCEPT ![p] = NoResp]
  /\ UNCHANGED <<now, reservations, locks, idempotencyKeys, maxGuestsPerSlot, pendingHoldTTLMinutes>>

(* cancelReservation: SET status = 'CANCELLED', updatedAt. *)
CancelWrite(p) ==
  /\ proc[p].pc = "cancel"
  /\ reservations' = [reservations EXCEPT ![proc[p].id].status = "CANCELLED"]
  /\ Finish(p, Reply(204, NoRes, NoKey, FALSE))
  /\ UNCHANGED <<now, locks, idempotencyKeys, maxGuestsPerSlot, pendingHoldTTLMinutes, ops>>

(***************************************************************************)
(* POST /reservations/:id/approve and /reject                              *)
(***************************************************************************)
ApproveBegin(p, id) ==
  /\ CanBegin(p)
  /\ ops' = ops + 1
  /\ IF id > Len(reservations)
     THEN Finish(p, Reply(404, NoRes, NoKey, FALSE))
     ELSE IF reservations[id].status # "PENDING"
     THEN Finish(p, Reply(400, NoRes, NoKey, FALSE))
     ELSE IF reservations[id].expiresAt # None /\ reservations[id].expiresAt < now
     THEN Finish(p, Reply(400, NoRes, NoKey, FALSE))
     ELSE /\ proc' = [proc EXCEPT ![p] = [Idle EXCEPT !.pc = "approve",
                                                       !.kind = "approve", !.id = id]]
          /\ resp' = [resp EXCEPT ![p] = NoResp]
  /\ UNCHANGED <<now, reservations, locks, idempotencyKeys, maxGuestsPerSlot, pendingHoldTTLMinutes>>

ApproveWrite(p) ==
  /\ proc[p].pc = "approve"
  /\ reservations' = [reservations EXCEPT ![proc[p].id].status = "CONFIRMED",
                                          ![proc[p].id].expiresAt = None]
  /\ Finish(p, Reply(200, NoRes, NoKey, FALSE))
  /\ UNCHANGED <<now, locks, idempotencyKeys, maxGuestsPerSlot, pendingHoldTTLMinutes, ops>>

RejectBegin(p, id) ==
  /\ CanBegin(p)
  /\ ops' = ops + 1
  /\ IF id > Len(reservations)
     THEN Finish(p, Reply(404, NoRes, NoKey, FALSE))
     ELSE IF reservations[id].status # "PENDING"
     THEN Finish(p, Reply(400, NoRes, NoKey, FALSE))
     ELSE /\ proc' = [proc EXCEPT ![p] = [Idle EXCEPT !.pc = "reject",
                                                       !.kind = "reject", !.id = id]]
          /\ resp' = [resp EXCEPT ![p] = NoResp]
  /\ UNCHANGED <<now, reservations, locks, idempotencyKeys, maxGuestsPerSlot, pendingHoldTTLMinutes>>

RejectWrite(p) ==
  /\ proc[p].pc = "reject"
  /\ reservations' = [reservations EXCEPT ![proc[p].id].status = "CANCELLED",
                                          ![proc[p].id].expiresAt = None]
  /\ Finish(p, Reply(200, NoRes, NoKey, FALSE))
  /\ UNCHANGED <<now, locks, idempotencyKeys, maxGuestsPerSlot, pendingHoldTTLMinutes, ops>>

(***************************************************************************)
(* GET /availability: one query of the store, then the report.            *)
(***************************************************************************)
AvailabilityRequest(p, dates) ==
  /\ CanBegin(p)
  /\ ops' = ops + 1
  /\ \E sectorId \in RequestSectors, date \in dates, partySize \in Parties :
        Finish(p, Reply(200,
                        [sectorId |-> sectorId, date |-> date, partySize |-> partySize,
                         slots |-> getAvailability(reservations, sectorId, date,
                                                   partySize, now)],
                        NoKey, FALSE))
  /\ UNCHANGED <<now, reservations, locks, idempotencyKeys, maxGuestsPerSlot, pendingHoldTTLMinutes>>

(***************************************************************************)
(* GET /reservations/day: the day query, answered with the items found.    *)
(***************************************************************************)
DayRequest(p, dates) ==
  /\ CanBegin(p)
  /\ ops' = ops + 1
  /\ \E date \in dates, sectorId \in Sectors \cup {""} :
        Finish(p, Reply(200,
                        [date |-> date, sectorId |-> sectorId,
                         items |-> getReservationsByDay(reservations, date, sectorId)],
                        NoKey, FALSE))
  /\ UNCHANGED <<now, reservations, locks, idempotencyKeys, maxGuestsPerSlot, pendingHoldTTLMinutes>>

(***************************************************************************)
(* POST /reservations/expire-pending                                       *)
(***************************************************************************)
ExpireSweep(p) ==
  /\ CanBegin(p)
  /\ ops' = ops + 1
  /\ reservations' = expirePendingHolds(reservations, now)
  /\ Finish(p, Reply(200,
                     [expiredCount |-> Cardinality(ExpiredHolds(reservations, now))],
                     NoKey, FALSE))
  /\ UNCHANGED <<now, locks, idempotencyKeys, maxGuestsPerSlot, pendingHoldTTLMinutes>>

(* The clock. *)
Tick ==
  /\ now < MaxNow
  /\ now' = now + 1
  /\ UNCHANGED <<reservations, locks, idempotencyKeys, maxGuestsPerSlot, pendingHoldTTLMinutes, proc, resp, ops>>

(* The PX time-to-live of a lock key runs out. *)
(* A store whose keys carry no expiry. *)
LockExpire_Never(key) ==
  /\ key \in DOMAIN locks
  /\ UNCHANGED vars

LockExpire(key) ==
  /\ key \in DOMAIN locks
  /\ locks' = [k \in DOMAIN locks \ {key} |-> locks[k]]
  /\ UNCHANGED <<now, reservations, idempotencyKeys, maxGuestsPerSlot, pendingHoldTTLMinutes, proc, resp, ops>>

(***************************************************************************)
(* Requests, with the sets their inputs are drawn from.                    *)
(***************************************************************************)
CreateRequest(p, keys, starts) ==
  \E key \in keys, sectorId \in RequestSectors, partySize \in Parties, start \in starts :
     CreateBegin(p, key, sectorId, partySize, start)

(* A create whose body names a sector of the given set. *)
CreateRequestIn(p, sectors, starts) ==
  \E sectorId \in sectors, partySize \in Parties, start \in starts :
     CreateBegin(p, NoKey, sectorId, partySize, start)

UpdateRequest(p, keys, starts) ==
  \E key \in keys, id \in 1..MaxRes, dSector \in RequestSectors \cup {""},
     dParty \in Parties \cup {0}, dStart \in starts \cup {None} :
     UpdateBegin(p, key, id, dSector, dParty, dStart)

(* An update that moves the reservation to a sector of the given set. *)
UpdateRequestIn(p, sectors, starts) ==
  \E id \in 1..MaxRes, dSector \in sectors, dStart \in starts \cup {None} :
     UpdateBegin(p, NoKey, id, dSector, 0, dStart)

CancelRequest(p) == \E id \in 1..MaxRes : CancelBegin(p, id)
ApproveRequest(p) == \E id \in 1..MaxRes : ApproveBegin(p, id)
RejectRequest(p) == \E id \in 1..MaxRes : RejectBegin(p, id)

(* The steps of a create once it is past validation. *)
CreateSteps(p) ==
  \/ AcquireRestaurantLock(p)
  \/ AcquireSectorLock(p)
  \/ GuestCheck(p)
  \/ AssignStep(p)
  \/ CreateExpire(p)
  \/ CreateInsert(p)
  \/ ReleaseLocks(p)

(***************************************************************************)
(* Spec: every handler, every input.                                       *)
(***************************************************************************)
Next ==
  \/ \E p \in Procs :
        \/ CreateRequest(p, IdemKeys, Starts)
        \/ UpdateRequest(p, IdemKeys, Starts)
        \/ CreateSteps(p)
        \/ UpdateWrite(p)
        \/ StoreIdempotency(p)
        \/ CancelRequest(p)
        \/ CancelWrite(p)
        \/ ApproveRequest(p)
        \/ ApproveWrite(p)
        \/ RejectRequest(p)
        \/ RejectWrite(p)
        \/ ExpireSweep(p)
  \/ Tick

Spec == Init /\ [][Next]_vars

(***************************************************************************)
(* SpecCreate: concurrent creates without idempotency keys, start times    *)
(* on and off the quarter-hour grid.                                       *)
(***************************************************************************)
NextCreate == \E p \in Procs : CreateRequest(p, {NoKey}, Starts) \/ CreateSteps(p)

SpecCreate == Init /\ [][NextCreate]_vars

(* Start times on the quarter-hour grid. *)
GridStarts == {s \in Starts : s % SLOT_MINUTES = 0}

(* The first of them. *)
FirstSlot == {s \in GridStarts : s < SLOT_MINUTES}

(***************************************************************************)
(* SpecTTL: concurrent creates for one start time in a restaurant with a   *)
(* guest cap, with lock keys whose PX time-to-live may run out at any      *)
(* moment.                                                                 *)
(***************************************************************************)
NextTTL ==
  \/ \E p \in Procs : CreateRequest(p, {NoKey}, FirstSlot) \/ CreateSteps(p)
  \/ \E key \in DOMAIN locks : LockExpire(key)

SpecTTL == InitCapped /\ [][NextTTL]_vars

(***************************************************************************)
(* SpecLifecycle: creates on the grid together with cancel, approve,       *)
(* reject, the sweep and the clock.                                        *)
(***************************************************************************)
NextLifecycle ==
  \/ \E p \in Procs :
        \/ CreateRequest(p, {NoKey}, GridStarts)
        \/ CreateSteps(p)
        \/ CancelRequest(p)
        \/ CancelWrite(p)
        \/ ApproveRequest(p)
        \/ ApproveWrite(p)
        \/ RejectRequest(p)
        \/ RejectWrite(p)
        \/ ExpireSweep(p)
  \/ Tick

SpecLifecycle == Init /\ [][NextLifecycle]_vars

(***************************************************************************)
(* SpecIdempotency: creates and updates that may carry an Idempotency-Key, *)
(* on one start time, in a restaurant with a guest cap.                    *)
(***************************************************************************)
NextIdempotency ==
  \E p \in Procs :
     \/ CreateRequest(p, IdemKeys, FirstSlot)
     \/ UpdateRequest(p, IdemKeys, FirstSlot)
     \/ CreateSteps(p)
     \/ UpdateWrite(p)
     \/ StoreIdempotency(p)

SpecIdempotency == InitCapped /\ [][NextIdempotency]_vars

(***************************************************************************)
(* SpecUpdate: creates and updates for the grid starts of the shift,       *)
(* without idempotency keys, in a restaurant with a guest cap.             *)
(***************************************************************************)
ShiftStarts == {s \in GridStarts : isWithinShift(s, Restaurant.shifts)}

NextUpdate ==
  \E p \in Procs :
     \/ CreateRequest(p, {NoKey}, ShiftStarts)
     \/ UpdateRequest(p, {NoKey}, ShiftStarts)
     \/ CreateSteps(p)
     \/ UpdateWrite(p)

SpecUpdate == InitCapped /\ [][NextUpdate]_vars

(***************************************************************************)
(* SpecUpdateCancel: creates, updates and cancels for one start time.      *)
(***************************************************************************)
NextUpdateCancel ==
  \E p \in Procs :
     \/ CreateRequest(p, {NoKey}, FirstSlot)
     \/ UpdateRequest(p, {NoKey}, FirstSlot)
     \/ CreateSteps(p)
     \/ UpdateWrite(p)
     \/ CancelRequest(p)
     \/ CancelWrite(p)

SpecUpdateCancel == InitCapped /\ [][NextUpdateCancel]_vars

(* ---- creates and updates whose sector may be another restaurant's ---- *)
(* Every request names restaurant R1 (a create in its body, an update by  *)
(* the stored reservation); the sector it names is one of R1's or the     *)
(* sector X1 of R2.                                                       *)
AnySectors == RequestSectors \cup ForeignSectors

NextSectorOwner ==
  \E p \in Procs :
     \/ CreateRequestIn(p, AnySectors, ShiftStarts)
     \/ UpdateRequestIn(p, AnySectors, ShiftStarts)
     \/ CreateSteps(p)
     \/ UpdateWrite(p)

SpecSectorOwner == InitCapped /\ [][NextSectorOwner]_vars

(***************************************************************************)
(* SpecHold: creates for one start time while the clock runs, in           *)
(* restaurants whose pendingHoldTTLMinutes is null, 0 or a positive        *)
(* number of minutes.                                                      *)
(***************************************************************************)
HoldTTLs == {None, 0, Restaurant.pendingHoldTTLMinutes}

InitHold == InitConfig(GuestCaps \ {None}, HoldTTLs)

NextHold ==
  \/ \E p \in Procs : CreateRequest(p, {NoKey}, FirstSlot) \/ CreateSteps(p)
  \/ Tick

SpecHold == InitHold /\ [][NextHold]_vars

(***************************************************************************)
(* SpecFree: creates for one start time, and the three ways a reservation  *)
(* becomes CANCELLED: cancel, reject and the sweep of expired holds.       *)
(***************************************************************************)
NextFree ==
  \/ \E p \in Procs :
        \/ CreateRequest(p, {NoKey}, FirstSlot)
        \/ CreateSteps(p)
        \/ CancelRequest(p)
        \/ CancelWrite(p)
        \/ RejectRequest(p)
        \/ RejectWrite(p)
        \/ ExpireSweep(p)
  \/ Tick

SpecFree == InitCapped /\ [][NextFree]_vars

(***************************************************************************)
(* SpecAssign: assignTable as a function of its arguments and of the       *)
(* store.  The initial states are the calls: a store of up to MaxRes rows  *)
(* that begin at the first slot, and for the caller a sector, a party      *)
(* size, a start, and the id of a reservation to exclude (0 for none).     *)
(* The one action applies assignTable and keeps what it returned.          *)
(***************************************************************************)
AssignParties == 1..(SumMax(getTablesBySector("S2")) + 1)

StoredTableSets == {{"T1"}, {"U1"}, {"U2", "U3"}, {"U3", "U4", "U5", "U6"}}

StoredRows ==
  {[NoRes EXCEPT !.restaurantId = Restaurant.id, !.sectorId = IF "T1" \in ts THEN "S1" ELSE "S2",
                 !.tableIds = ts,
                 !.partySize = Cardinality(ts),
                 !.start = s,
                 !.end = addMinutesToDate(s, SLOT_MINUTES),
                 !.status = st,
                 !.createdAt = 0] :
     ts \in StoredTableSets, s \in FirstSlot,
     st \in ACTIVE \cup {"CANCELLED"}}

Stores ==
  UNION {{[i \in 1..n |-> [f[i] EXCEPT !.id = i]] : f \in [1..n -> StoredRows]} :
           n \in 0..MaxRes}

AssignCalls ==
  {[Idle EXCEPT !.pc = "call", !.kind = "assignTable", !.sectorId = sec,
                !.partySize = party, !.start = s,
                !.end = addMinutesToDate(s, SLOT_MINUTES), !.id = ex] :
     sec \in Sectors, party \in AssignParties, s \in ShiftStarts, ex \in 0..MaxRes}

Caller == CHOOSE p \in Procs : TRUE

InitAssign ==
  /\ now = 0
  /\ reservations \in Stores
  /\ locks = << >>
  /\ idempotencyKeys = << >>
  /\ maxGuestsPerSlot = None
  /\ pendingHoldTTLMinutes = Restaurant.pendingHoldTTLMinutes
  /\ proc \in {[p \in Procs |-> IF p = Caller THEN c ELSE Idle] : c \in AssignCalls}
  /\ resp = [p \in Procs |-> NoResp]
  /\ ops = 0

AssignTableCall(p) ==
  /\ proc[p].pc = "call"
  /\ proc' = [proc EXCEPT
        ![p].pc = "returned",
        ![p].tableIds = assignTable(reservations, proc[p].sectorId, proc[p].start,
                                    proc[p].partySize, proc[p].end - proc[p].start,
                                    proc[p].id)]
  /\ UNCHANGED <<now, reservations, locks, idempotencyKeys, maxGuestsPerSlot, pendingHoldTTLMinutes, resp, ops>>

NextAssign == \E p \in Procs : AssignTableCall(p)

(* The table queries have no ORDER BY: the rows come in an order the store *)
(* chooses.  Two of its orders: as inserted, and the reverse.              *)
Reversed(seq) == [i \in 1..Len(seq) |-> seq[Len(seq) + 1 - i]]

StoreOrders(sectorId) ==
  {getTablesBySector(sectorId), Reversed(getTablesBySector(sectorId))}

AssignTableAnyOrder(p) ==
  /\ proc[p].pc = "call"
  /\ \E rows \in StoreOrders(proc[p].sectorId) :
        proc' = [proc EXCEPT
           ![p].pc = "returned",
           ![p].tableIds =
              assignFrom(reservations,
                         SelectSeq(rows, LAMBDA t : /\ t.minSize <= proc[p].partySize
                                                    /\ t.maxSize >= proc[p].partySize),
                         rows, proc[p].start, proc[p].partySize,
                         proc[p].end - proc[p].start, proc[p].id)]
  /\ UNCHANGED <<now, reservations, locks, idempotencyKeys, maxGuestsPerSlot, pendingHoldTTLMinutes, resp, ops>>

NextAssignOrder == \E p \in Procs : AssignTableAnyOrder(p)

SpecAssignOrder == InitAssign /\ [][NextAssignOrder]_vars

SpecAssign == InitAssign /\ [][NextAssign]_vars

(***************************************************************************)
(* SpecNoCapacity: creates for one start time in either sector, for a      *)
(* couple and for parties around the most the small tables of S2 seat      *)
(* together.                                                               *)
(***************************************************************************)
CrowdParties ==
  {n \in AssignParties : n \in Parties \/ n + 2 > SumMax(getTablesBySector("S2"))}

NextNoCapacity ==
  \E p \in Procs :
     \/ \E sectorId \in Sectors, partySize \in CrowdParties, start \in FirstSlot :
           CreateBegin(p, NoKey, sectorId, partySize, start)
     \/ CreateSteps(p)

SpecNoCapacity == Init /\ [][NextNoCapacity]_vars

(***************************************************************************)
(* SpecAvailability: creates late in the evening of day 0 and at the start *)
(* of day 1, cancels, and availability reports for the two days.           *)
(***************************************************************************)
Dates == {0, 1}

LateStarts ==
  {localTimeToUTC(0, Restaurant.shifts[Len(Restaurant.shifts)].start),
   localTimeToUTC(1, Restaurant.shifts[1].start)}

NextAvailability ==
  \E p \in Procs :
     \/ CreateRequest(p, {NoKey}, LateStarts)
     \/ CreateSteps(p)
     \/ CancelRequest(p)
     \/ CancelWrite(p)
     \/ AvailabilityRequest(p, Dates)

SpecAvailability == InitCapped /\ [][NextAvailability]_vars

(***************************************************************************)
(* SpecBookable: creates at the first slot of day 0 and availability       *)
(* reports for that day, for a restaurant with maxGuestsPerSlot set.       *)
(***************************************************************************)
(* Steps 7 and 9 of createReservationService on the store rs: the request  *)
(* is refused with NO_CAPACITY when the guest limit would be exceeded or   *)
(* when assignTable returns no table.                                      *)
createNoCapacity(rs, maxGuests, sectorId, start, partySize) ==
  LET duration == DurationOf(partySize)
      endT == addMinutesToDate(start, duration)
      overlapping == getOverlappingReservationsForRestaurant(rs, start, endT, 0)
      currentGuests == SumParty(rs, overlapping)
  IN \/ (maxGuests # None /\ currentGuests + partySize > maxGuests)
     \/ assignTable(rs, sectorId, start, partySize, duration, 0) = {}

NextBookable ==
  \E p \in Procs :
     \/ CreateRequest(p, {NoKey}, FirstSlot)
     \/ CreateSteps(p)
     \/ AvailabilityRequest(p, {0})

SpecBookable == InitCapped /\ [][NextBookable]_vars

(***************************************************************************)
(* SpecSweep: the expire sweep run alone.  The initial states are a clock  *)
(* reading and a store of up to MaxRes rows as creates, approvals,         *)
(* cancels and earlier sweeps leave them: CONFIRMED without expiresAt,     *)
(* PENDING with one, CANCELLED with or without.                            *)
(***************************************************************************)
HoldExpiries == {addMinutesToDate(t, Restaurant.pendingHoldTTLMinutes) : t \in 0..MaxNow}

SweepRows ==
  {[NoRes EXCEPT !.restaurantId = Restaurant.id, !.partySize = Restaurant.largeGroupThreshold,
                 !.start = s,
                 !.end = addMinutesToDate(s, DurationOf(Restaurant.largeGroupThreshold)),
                 !.status = st,
                 !.expiresAt = e,
                 !.createdAt = 0] :
     s \in FirstSlot, st \in {"PENDING", "CANCELLED"}, e \in HoldExpiries}
  \cup
  {[NoRes EXCEPT !.restaurantId = Restaurant.id, !.partySize = Restaurant.largeGroupThreshold,
                 !.start = s,
                 !.end = addMinutesToDate(s, DurationOf(Restaurant.largeGroupThreshold)),
                 !.status = st,
                 !.createdAt = 0] :
     s \in FirstSlot, st \in {"CONFIRMED", "CANCELLED"}}

(* Row i of a store is on the i-th table. *)
SweepStores ==
  UNION {{[i \in 1..n |-> [f[i] EXCEPT !.id = i,
                                       !.sectorId = Tables[i].sectorId,
                                       !.tableIds = {Tables[i].id}]] :
            f \in [1..n -> SweepRows]} : n \in 0..MaxRes}

InitSweep ==
  /\ now \in 0..MaxNow
  /\ reservations \in SweepStores
  /\ locks = << >>
  /\ idempotencyKeys = << >>
  /\ maxGuestsPerSlot = None
  /\ pendingHoldTTLMinutes = Restaurant.pendingHoldTTLMinutes
  /\ proc = [p \in Procs |-> Idle]
  /\ resp = [p \in Procs |-> NoResp]
  /\ ops = 0

NextSweep == (\E p \in Procs : ExpireSweep(p)) \/ Tick

SpecSweep == InitSweep /\ [][NextSweep]_vars

(***************************************************************************)
(* Cancel requests on the reservations of a stored day.                    *)
(***************************************************************************)
CancelRows ==
  {r \in SweepRows : r.expiresAt \in {None, Restaurant.pendingHoldTTLMinutes}}

CancelStores ==
  UNION {{[i \in 1..n |-> [f[i] EXCEPT !.id = i,
                                       !.sectorId = Tables[i].sectorId,
                                       !.tableIds = {Tables[i].id}]] :
            f \in [1..n -> CancelRows]} : n \in 1..MaxRes}

InitCancel ==
  /\ now = 0
  /\ reservations \in CancelStores
  /\ locks = << >>
  /\ idempotencyKeys = << >>
  /\ maxGuestsPerSlot = None
  /\ pendingHoldTTLMinutes = Restaurant.pendingHoldTTLMinutes
  /\ proc = [p \in Procs |-> Idle]
  /\ resp = [p \in Procs |-> NoResp]
  /\ ops = 0

NextCancel ==
  \E p \in Procs :
     \/ \E id \in 1..Len(reservations) : CancelBegin(p, id)
     \/ CancelWrite(p)

SpecCancel == InitCancel /\ [][NextCancel]_vars

(***************************************************************************)
(* Day queries on stored days.  A stored start is any instant the create   *)
(* request may carry: the first instant of a day, its last millisecond,    *)
(* the first instant of the next day.                                      *)
(***************************************************************************)
DayInstants ==
  {<<0, 0>>, <<DAY_MINUTES - 1, MS_PER_MINUTE - 1>>, <<DAY_MINUTES, 0>>}

DayRows ==
  {[NoRes EXCEPT !.restaurantId = Restaurant.id, !.sectorId = sec,
                 !.tableIds = {getTablesBySector(sec)[1].id},
                 !.partySize = Restaurant.largeGroupThreshold - 1,
                 !.start = at[1],
                 !.startMs = at[2],
                 !.end = addMinutesToDate(at[1], SLOT_MINUTES),
                 !.status = st,
                 !.createdAt = 0] :
     sec \in Sectors, at \in DayInstants, st \in ACTIVE \cup {"CANCELLED"}}

DayStores ==
  UNION {{[i \in 1..n |-> [f[i] EXCEPT !.id = i]] : f \in [1..n -> DayRows]} :
           n \in 0..MaxRes}

InitDayQuery ==
  /\ now = 0
  /\ reservations \in DayStores
  /\ locks = << >>
  /\ idempotencyKeys = << >>
  /\ maxGuestsPerSlot = None
  /\ pendingHoldTTLMinutes = Restaurant.pendingHoldTTLMinutes
  /\ proc = [p \in Procs |-> Idle]
  /\ resp = [p \in Procs |-> NoResp]
  /\ ops = 0

NextDayQuery == DayRequest(Caller, Dates)

SpecDayQuery == InitDayQuery /\ [][NextDayQuery]_vars

(***************************************************************************)
(* generate15MinSlots applied to one shift of a calendar day, as           *)
(* getAvailability calls it: the fourth argument is the longest duration   *)
(* of the restaurant's rules, for which the function has no parameter.     *)
(***************************************************************************)
SlotShiftStarts == {0, 60, 1320}
SlotShiftLengths == {30, 60, 90, 105, 120}
SlotDurations == {30, 90, 120}

SlotCalls ==
  {[Idle EXCEPT !.pc = "call", !.kind = "generate15MinSlots",
                !.body = [date |-> d,
                          shifts |-> << [start |-> st, end |-> st + len] >>,
                          maxDuration |-> dur,
                          slots |-> << >>]] :
     d \in Dates, st \in SlotShiftStarts, len \in SlotShiftLengths,
     dur \in SlotDurations}

InitSlots ==
  /\ now = 0
  /\ reservations = << >>
  /\ locks = << >>
  /\ idempotencyKeys = << >>
  /\ maxGuestsPerSlot = None
  /\ pendingHoldTTLMinutes = Restaurant.pendingHoldTTLMinutes
  /\ proc \in {[p \in Procs |-> IF p = Caller THEN c ELSE Idle] : c \in SlotCalls}
  /\ resp = [p \in Procs |-> NoResp]
  /\ ops = 0

GenerateSlotsCall(p) ==
  /\ proc[p].pc = "call"
  /\ proc[p].kind = "generate15MinSlots"
  /\ proc' = [proc EXCEPT
        ![p].pc = "returned",
        ![p].body.slots = generate15MinSlots(proc[p].body.date, proc[p].body.shifts)]
  /\ UNCHANGED <<now, reservations, locks, idempotencyKeys, maxGuestsPerSlot, pendingHoldTTLMinutes, resp, ops>>

NextSlots == \E p \in Procs : GenerateSlotsCall(p)

SpecSlots == InitSlots /\ [][NextSlots]_vars

(***************************************************************************)
(* acquireReservationLocks, one Redis command per step, for two callers    *)
(* that have both entered it.  sacq is the length of `acquired`, undone    *)
(* the number of its keys the fail-fast loop has released so far.          *)
(***************************************************************************)
LockSlots == 1..3

LockCalls ==
  {[Idle EXCEPT !.pc = "set", !.kind = "acquire", !.sectorId = sec, !.start = s,
                !.end = addMinutesToDate(s, n * SLOT_MINUTES)] :
     sec \in RequestSectors, s \in ShiftStarts, n \in LockSlots}

InitLocks ==
  /\ now = 0
  /\ reservations = << >>
  /\ locks = << >>
  /\ idempotencyKeys = << >>
  /\ maxGuestsPerSlot = None
  /\ pendingHoldTTLMinutes = Restaurant.pendingHoldTTLMinutes
  /\ proc \in [Procs -> LockCalls]
  /\ resp = [p \in Procs |-> NoResp]
  /\ ops = 0

(* redis.set(key, token, 'PX', ttlMs, 'NX') on the next key of the loop. *)
LockSet(p) ==
  /\ proc[p].pc = "set"
  /\ LET keys == sectorKeys(proc[p].sectorId, proc[p].start, proc[p].end)
         n == proc[p].sacq
         key == keys[n + 1]
     IN IF key \notin DOMAIN locks
        THEN /\ locks' = SetNX(locks, key, p)
             /\ proc' = [proc EXCEPT ![p].sacq = n + 1,
                                     ![p].pc = IF n + 1 = Len(keys) THEN "held"
                                               ELSE "set"]
        ELSE /\ proc' = [proc EXCEPT ![p].pc = "undo"]
             /\ UNCHANGED locks
  /\ UNCHANGED <<now, reservations, idempotencyKeys, maxGuestsPerSlot, pendingHoldTTLMinutes, resp, ops>>

(* Fail-fast: redis.eval(RELEASE_SCRIPT) on the next acquired key, and     *)
(* NO_CAPACITY once all of them are released.                              *)
LockUndo(p) ==
  /\ proc[p].pc = "undo"
  /\ LET keys == sectorKeys(proc[p].sectorId, proc[p].start, proc[p].end)
         n == proc[p].undone
     IN IF n < proc[p].sacq
        THEN /\ locks' = RELEASE_SCRIPT(locks, keys[n + 1], p)
             /\ proc' = [proc EXCEPT ![p].undone = n + 1]
        ELSE /\ proc' = [proc EXCEPT ![p].pc = "busy", ![p].out = 409,
                                     ![p].detail = "lock busy (slot)"]
             /\ UNCHANGED locks
  /\ UNCHANGED <<now, reservations, idempotencyKeys, maxGuestsPerSlot, pendingHoldTTLMinutes, resp, ops>>

NextLocks == \E p \in Procs : LockSet(p) \/ LockUndo(p)

SpecLocks ==
  InitLocks /\ [][NextLocks]_vars /\ \A p \in Procs : WF_vars(LockSet(p) \/ LockUndo(p))

(***************************************************************************)
(* The same two callers with the store's key expiry, a caller whose task   *)
(* dies with its keys set, and a refused caller that calls again.          *)
(***************************************************************************)
LockKeySpace ==
  {lockKey(c.sectorId, c.start + (n - 1) * SLOT_MINUTES) : c \in LockCalls, n \in LockSlots}

Crash(p) ==
  /\ proc[p].pc \in {"set", "undo", "held"}
  /\ proc' = [proc EXCEPT ![p].pc = "crashed"]
  /\ UNCHANGED <<now, reservations, locks, idempotencyKeys, maxGuestsPerSlot, pendingHoldTTLMinutes, resp, ops>>

LockRetry(p) ==
  /\ proc[p].pc = "busy"
  /\ proc' = [proc EXCEPT ![p].pc = "set", ![p].sacq = 0, ![p].undone = 0,
                          ![p].out = 0, ![p].detail = ""]
  /\ UNCHANGED <<now, reservations, locks, idempotencyKeys, maxGuestsPerSlot, pendingHoldTTLMinutes, resp, ops>>

NextLockTTL ==
  \/ \E p \in Procs : LockSet(p) \/ LockUndo(p) \/ Crash(p) \/ LockRetry(p)
  \/ \E key \in DOMAIN locks : LockExpire(key)

SpecLockTTL ==
  InitLocks /\ [][NextLockTTL]_vars /\ \A key \in LockKeySpace : WF_vars(LockExpire(key))

(***************************************************************************)
(* Vocabulary of the properties                                            *)
(***************************************************************************)
(* Half-open intervals [a1, b1) and [a2, b2) intersect. *)
Intersects(a1, b1, a2, b2) == a1 < b2 /\ a2 < b1

(* Key k holds the token of p. *)
HoldsKey(p, k) == k \in DOMAIN locks /\ locks[k] = p

(* p holds every sector key of the interval it asked for. *)
HoldsSectorLocks(p) ==
  LET keys == sectorKeys(proc[p].sectorId, proc[p].start, proc[p].end)
  IN /\ proc[p].pc # "idle"
     /\ proc[p].sacq = Len(keys)
     /\ Len(keys) > 0
     /\ \A i \in 1..Len(keys) : HoldsKey(p, keys[i])

(* p is in an acquisition; the keys of that acquisition and how many of    *)
(* them it has set.                                                        *)
Acquiring(p) == proc[p].pc \in {"rlock", "slock"}

AttemptKeys(p) ==
  IF proc[p].pc = "rlock"
  THEN restaurantKeys(Restaurant.id, proc[p].start, proc[p].end)
  ELSE sectorKeys(proc[p].sectorId, proc[p].start, proc[p].end)

AttemptAcquired(p) == IF proc[p].pc = "rlock" THEN proc[p].racq ELSE proc[p].sacq

(* The quarter-hour instants any reservation of the model can contain. *)
SlotInstants ==
  {t \in 0..(Restaurant.shifts[1].end + Restaurant.reservationDurationMinutes) :
      t % SLOT_MINUTES = 0}

GuestsAt(t) ==
  SumParty(reservations,
           {i \in 1..Len(reservations) :
               /\ reservations[i].status \in ACTIVE
               /\ reservations[i].start <= t
               /\ t < reservations[i].end})

LifecycleEdges ==
  { <<"PENDING", "CONFIRMED">>, <<"PENDING", "CANCELLED">>,
    <<"CONFIRMED", "CANCELLED">> }

(***************************************************************************)
(* C1: in every reachable state, any two distinct reservations that are    *)
(* CONFIRMED or PENDING and share a table id have disjoint half-open       *)
(* intervals.                                                              *)
(***************************************************************************)
C1_NoOverlapOnTable ==
  \A i, j \in 1..Len(reservations) :
     ( /\ i # j
       /\ reservations[i].status \in ACTIVE
       /\ reservations[j].status \in ACTIVE
       /\ reservations[i].tableIds \cap reservations[j].tableIds # {} )
     => ~Intersects(reservations[i].start, reservations[i].end,
                    reservations[j].start, reservations[j].end)

(***************************************************************************)
(* C2: of two creates on one sector with intersecting intervals that run   *)
(* concurrently, at most one gets past the locks and inserts its row: two  *)
(* such creates are never both holding their locks with their row          *)
(* persisted and a 201 to come.                                            *)
(***************************************************************************)
Inserted(p) == proc[p].kind = "create" /\ proc[p].pc = "release" /\ proc[p].out = 0

C2_ExactlyOneCreateWins ==
  \A p, q \in Procs :
     ( /\ p # q
       /\ Inserted(p)
       /\ Inserted(q)
       /\ proc[p].sectorId = proc[q].sectorId )
     => ~Intersects(proc[p].start, proc[p].end, proc[q].start, proc[q].end)

(***************************************************************************)
(* C3: two acquisitions on one sector whose intervals intersect never hold *)
(* their sector locks at the same moment, whatever their start times.      *)
(***************************************************************************)
C3_SectorMutualExclusion ==
  \A p, q \in Procs :
     ( /\ p # q
       /\ HoldsSectorLocks(p)
       /\ HoldsSectorLocks(q)
       /\ proc[p].sectorId = proc[q].sectorId )
     => ~Intersects(proc[p].start, proc[p].end, proc[q].start, proc[q].end)

(***************************************************************************)
(* C4: once a create has returned, whatever its exit path, no restaurant   *)
(* or sector lock key still holds the token it acquired.                   *)
(***************************************************************************)
C4_NoLockLeftBehind ==
  \A p \in Procs :
     proc[p].pc = "idle" => \A k \in DOMAIN locks : locks[k] # p

(***************************************************************************)
(* C5: acquisition is fail-fast and all-or-nothing.  A step of an          *)
(* acquisition that meets a held key ends the request at once with a 409   *)
(* "lock busy", and none of the keys of the attempt is left under its      *)
(* token; an acquisition that completes holds every key of its set.        *)
(***************************************************************************)
LockBusy == {"lock busy (time)", "lock busy (slot)"}

C5_Step(p) ==
  LET keys == AttemptKeys(p)
      n == AttemptAcquired(p)
  IN (Acquiring(p) /\ proc'[p] # proc[p]) =>
        IF keys[n + 1] \in DOMAIN locks
        THEN /\ proc'[p].pc = "idle"
             /\ resp'[p].status = 409
             /\ resp'[p].detail \in LockBusy
             /\ \A i \in 1..Len(keys) :
                   ~(keys[i] \in DOMAIN locks' /\ locks'[keys[i]] = p)
        ELSE /\ proc'[p].pc # "idle"
             /\ \A i \in 1..(n + 1) :
                   keys[i] \in DOMAIN locks' /\ locks'[keys[i]] = p

C5_FailFastAllOrNothing == [][\A p \in Procs : C5_Step(p)]_vars

(* An acquisition that has set a key and whose next key is held by the     *)
(* other worker.                                                           *)
C5_Witness ==
  \E p \in Procs :
     /\ Acquiring(p)
     /\ AttemptAcquired(p) >= 1
     /\ HoldsKey(p, AttemptKeys(p)[1])
     /\ \E q \in Procs \ {p} : HoldsKey(q, AttemptKeys(p)[AttemptAcquired(p) + 1])

(***************************************************************************)
(* C6: a step of a worker never removes or changes a key that holds        *)
(* another holder's token, also when the key is one the worker had set     *)
(* itself and that expired and was acquired again.                         *)
(***************************************************************************)
C6_ReleaseSparesOthers ==
  [][\A p \in Procs : \A k \in DOMAIN locks :
        (proc'[p] # proc[p] /\ locks[k] # p)
        => (k \in DOMAIN locks' /\ locks'[k] = locks[k])]_vars

(* p has returned with its row, which it inserted after q inserted its     *)
(* own, and q still holds a sector key of p's interval: the key p had set  *)
(* expired, q acquired it, and the release of p left it in place.          *)
C6_Witness ==
  \E p \in Procs : \E q \in Procs \ {p} :
     /\ proc[p].pc = "idle"
     /\ resp[p].status = 201
     /\ proc[q].pc = "release"
     /\ proc[q].out = 0
     /\ proc[q].body.id < resp[p].body.id
     /\ LET keys == sectorKeys(resp[p].body.sectorId, resp[p].body.start,
                               resp[p].body.end)
        IN \E i \in 1..Len(keys) : HoldsKey(q, keys[i])

(***************************************************************************)
(* C7: the only status changes that ever occur are PENDING to CONFIRMED,   *)
(* PENDING to CANCELLED and CONFIRMED to CANCELLED; in particular a        *)
(* CANCELLED reservation never changes status again.                       *)
(***************************************************************************)
C7_LifecycleGraph ==
  [][\A i \in 1..Len(reservations) :
        reservations'[i].status # reservations[i].status
        => <<reservations[i].status, reservations'[i].status>> \in LifecycleEdges]_vars

(***************************************************************************)
(* C8: at the moment a reservation's status is written from PENDING to     *)
(* CONFIRMED, its expiresAt is not earlier than the current time.          *)
(***************************************************************************)
C8_NoApprovalAfterExpiry ==
  [][\A i \in 1..Len(reservations) :
        ( /\ reservations[i].status = "PENDING"
          /\ reservations'[i].status = "CONFIRMED"
          /\ reservations[i].expiresAt # None )
        => ~(reservations[i].expiresAt < now)]_vars

(***************************************************************************)
(* C9: a create or update answered 2xx with key k has its payload stored   *)
(* under k; a stored payload never changes; and every request that begins  *)
(* with a stored key k is answered at once with that payload, from the     *)
(* store, leaving reservations and the stored keys as they were.           *)
(***************************************************************************)
Accepted(p) == resp[p].status \in {200, 201} /\ resp[p].key # NoKey

(* This step is worker p beginning a request that carries key k. *)
BeginsWith(p, k) ==
  /\ proc[p].pc = "idle"
  /\ \/ proc'[p].pc # "idle" /\ proc'[p].key = k
     \/ resp'[p] # resp[p] /\ resp'[p].key = k

C9_AcceptedIsStored ==
  \A p \in Procs :
     Accepted(p) => /\ resp[p].key \in DOMAIN idempotencyKeys
                    /\ idempotencyKeys[resp[p].key] = resp[p].body

C9_Replay ==
  \A k \in DOMAIN idempotencyKeys :
     /\ k \in DOMAIN idempotencyKeys'
     /\ idempotencyKeys'[k] = idempotencyKeys[k]
     /\ \A p \in Procs :
           BeginsWith(p, k) =>
              /\ proc'[p].pc = "idle"
              /\ resp'[p].status \in {200, 201}
              /\ resp'[p].cached
              /\ resp'[p].body = idempotencyKeys[k]
              /\ reservations' = reservations
              /\ idempotencyKeys' = idempotencyKeys

C9_IdempotentReplay == [](C9_AcceptedIsStored) /\ [][C9_Replay]_vars

(* A request was answered from the store with the payload of the one       *)
(* reservation that exists.                                                *)
C9_Witness ==
  \E p \in Procs :
     /\ resp[p].cached
     /\ resp[p].key \in DOMAIN idempotencyKeys
     /\ Len(reservations) = 1
     /\ resp[p].body.id = 1

(***************************************************************************)
(* C10: with maxGuestsPerSlot = M, at every quarter-hour instant the party *)
(* sizes of the CONFIRMED and PENDING reservations whose interval contains *)
(* the instant sum to at most M.                                           *)
(***************************************************************************)
C10_GuestCap ==
  maxGuestsPerSlot # None =>
     \A t \in SlotInstants : GuestsAt(t) <= maxGuestsPerSlot

(***************************************************************************)
(* C11: every CONFIRMED or PENDING reservation lies inside one shift: its  *)
(* start is within some shift's [start, end) in local time and its end is  *)
(* not later than the end of that same shift.                              *)
(***************************************************************************)
InsideOneShift(r) ==
  \E i \in 1..Len(Restaurant.shifts) :
     /\ formatTime(r.start) >= Restaurant.shifts[i].start
     /\ formatTime(r.start) < Restaurant.shifts[i].end
     /\ formatTime(r.start) + (r.end - r.start) <= Restaurant.shifts[i].end

C11_ShiftContainment ==
  \A i \in 1..Len(reservations) :
     reservations[i].status \in ACTIVE => InsideOneShift(reservations[i])

(***************************************************************************)
(* C12: every reservation with status CANCELLED has expiresAt null,        *)
(* whichever operation cancelled it.                                       *)
(***************************************************************************)
C12_CancelledHasNoExpiry ==
  \A i \in 1..Len(reservations) :
     reservations[i].status = "CANCELLED" => reservations[i].expiresAt = None

(***************************************************************************)
(* C13: every reservation with status PENDING has expiresAt set, and its   *)
(* expiresAt is strictly later than its createdAt.                         *)
(***************************************************************************)
C13_PendingExpiresAfterCreation ==
  \A i \in 1..Len(reservations) :
     reservations[i].status = "PENDING" =>
        /\ reservations[i].expiresAt # None
        /\ reservations[i].expiresAt > reservations[i].createdAt

(***************************************************************************)
(* C14: for every stored reservation, end minus start equals the duration  *)
(* the duration rules give for its current partySize, after create and     *)
(* after every update.                                                     *)
(***************************************************************************)
C14_DurationMatchesPartySize ==
  \A i \in 1..Len(reservations) :
     reservations[i].end - reservations[i].start
        = DurationOf(reservations[i].partySize)

(* An update answered 200 on a reservation that is CONFIRMED with a party  *)
(* of largeGroupThreshold or more: created smaller, its party size and     *)
(* with it its duration were changed by the update.                        *)
C14_Witness ==
  \E p \in Procs :
     /\ resp[p].status = 200
     /\ resp[p].body.status = "CONFIRMED"
     /\ resp[p].body.partySize >= Restaurant.largeGroupThreshold
     /\ resp[p].body.end - resp[p].body.start = DurationOf(resp[p].body.partySize)

(***************************************************************************)
(* C15: no step of an update changes the id, the status or the expiresAt   *)
(* of a reservation, and no step of an update changes anything of a        *)
(* reservation that is CANCELLED: such an update is answered 400 and       *)
(* leaves the store and the locks as they were.                            *)
(***************************************************************************)
CancelledDetail == "cannot update a cancelled reservation"

UpdateStepOf(p) ==
  /\ proc'[p] # proc[p]
  /\ (proc[p].kind = "update" \/ proc'[p].kind = "update")

C15_Step(p) ==
  /\ UpdateStepOf(p) =>
        \A i \in 1..Len(reservations) :
           /\ reservations'[i].id = reservations[i].id
           /\ reservations'[i].status = reservations[i].status
           /\ reservations'[i].expiresAt = reservations[i].expiresAt
           /\ reservations[i].status = "CANCELLED" =>
                 reservations'[i] = reservations[i]
  /\ (resp'[p] # resp[p] /\ resp'[p].detail = CancelledDetail) =>
        /\ resp'[p].status = 400
        /\ reservations' = reservations
        /\ locks' = locks

C15_UpdateKeepsIdentityAndStatus == [][\A p \in Procs : C15_Step(p)]_vars

(***************************************************************************)
(* C16: when every create in flight and every stored reservation is for a  *)
(* party of 2 at one start in the sector of T1 and T2, a create is         *)
(* answered 201 as long as one of the two tables is free, and is answered  *)
(* 409 only when T1 and T2 are both taken at that start.                   *)
(***************************************************************************)
C16_Scene(p) ==
  /\ proc[p].kind = "create"
  /\ proc[p].partySize = 2
  /\ \A t \in 1..Len(getTablesBySector(proc[p].sectorId)) :
        /\ getTablesBySector(proc[p].sectorId)[t].minSize <= 2
        /\ getTablesBySector(proc[p].sectorId)[t].maxSize >= 2
  /\ \A q \in Creating :
        /\ proc[q].partySize = 2
        /\ proc[q].start = proc[p].start
        /\ proc[q].sectorId = proc[p].sectorId
  /\ \A i \in 1..Len(reservations) :
        /\ reservations[i].partySize = 2
        /\ reservations[i].start = proc[p].start
        /\ reservations[i].sectorId = proc[p].sectorId
        /\ reservations[i].status \in ACTIVE

C16_Step(p) ==
  (C16_Scene(p) /\ proc'[p].pc = "idle") =>
     \/ resp'[p].status = 201
     \/ /\ resp'[p].status = 409
        /\ \A t \in {"T1", "T2"} :
              getOverlappingReservations(reservations, {t}, proc[p].start,
                                         proc[p].end, 0) # {}

C16_BothConcurrentCreatesSucceed == [][\A p \in Procs : C16_Step(p)]_vars

(***************************************************************************)
(* C17: a create decides status PENDING with expiresAt = now +             *)
(* pendingHoldTTLMinutes exactly when partySize >= largeGroupThreshold and *)
(* pendingHoldTTLMinutes is set, whatever its value, and decides CONFIRMED *)
(* with expiresAt null in every other case; the row it inserts carries     *)
(* the status and the expiresAt decided.                                   *)
(***************************************************************************)
C17_HoldRequired(p) ==
  /\ Restaurant.largeGroupThreshold # None
  /\ proc[p].partySize >= Restaurant.largeGroupThreshold
  /\ pendingHoldTTLMinutes # None

C17_Step(p) ==
  /\ (proc[p].kind = "create" /\ proc[p].pc = "assign" /\ proc'[p].pc = "expire") =>
        IF C17_HoldRequired(p)
        THEN /\ proc'[p].status = "PENDING"
             /\ proc'[p].expiresAt = now + pendingHoldTTLMinutes
        ELSE /\ proc'[p].status = "CONFIRMED"
             /\ proc'[p].expiresAt = None
  /\ (proc[p].kind = "create" /\ proc[p].pc = "insert" /\ proc'[p].pc = "release") =>
        /\ Len(reservations') = Len(reservations) + 1
        /\ reservations'[Len(reservations')].status = proc[p].status
        /\ reservations'[Len(reservations')].expiresAt = proc[p].expiresAt

C17_PendingExactlyForLargeGroups == [][\A p \in Procs : C17_Step(p)]_vars

(***************************************************************************)
(* C18: after every step, the overlap query for the tables and the         *)
(* interval of a CANCELLED reservation does not return that reservation;   *)
(* and a create is refused for lack of a table only when every table that  *)
(* fits its party is used by a CONFIRMED or PENDING reservation whose      *)
(* interval intersects the one requested, so the tables of CANCELLED       *)
(* reservations are given out again.                                       *)
(***************************************************************************)
C18_NotReturned(rs) ==
  \A i \in 1..Len(rs) :
     rs[i].status = "CANCELLED" =>
        i \notin getOverlappingReservations(rs, rs[i].tableIds, rs[i].start, rs[i].end, 0)

C18_Refused(p) ==
  /\ proc[p].kind = "create"
  /\ proc[p].pc = "assign"
  /\ proc'[p].pc = "release"
  /\ proc'[p].out = 409

C18_Step ==
  /\ C18_NotReturned(reservations')
  /\ \A p \in Procs :
        C18_Refused(p) =>
           LET fit == getEligibleTables(proc[p].sectorId, proc[p].partySize)
           IN \A t \in 1..Len(fit) :
                 \E i \in 1..Len(reservations) :
                    /\ reservations[i].status \in ACTIVE
                    /\ fit[t].id \in reservations[i].tableIds
                    /\ Intersects(reservations[i].start, reservations[i].end,
                                  proc[p].start, proc[p].end)

C18_CancelledFreesTables == [][C18_Step]_vars

(* A CANCELLED reservation and a later CONFIRMED or PENDING one that has   *)
(* one of its tables for an intersecting interval.                         *)
C18_Witness ==
  \E i \in 1..Len(reservations) : \E j \in 1..Len(reservations) :
     /\ i < j
     /\ reservations[i].status = "CANCELLED"
     /\ reservations[j].status \in ACTIVE
     /\ reservations[i].tableIds \cap reservations[j].tableIds # {}
     /\ Intersects(reservations[i].start, reservations[i].end,
                   reservations[j].start, reservations[j].end)

(***************************************************************************)
(* C19: occupancy is judged on half-open intervals.  A table counts as     *)
(* taken for a request only when a CONFIRMED or PENDING reservation on it  *)
(* has an interval that intersects the request's by a positive amount.  A  *)
(* create is never assigned a taken table; it is assigned the first table  *)
(* in best-fit order that is not taken, so a reservation that only touches *)
(* the request at an endpoint does not keep it from that table; it is      *)
(* refused only when every table that fits is taken; and its insert keeps  *)
(* every earlier row as it was.                                            *)
(***************************************************************************)
C19_Taken(tableId, startT, endT) ==
  \E i \in 1..Len(reservations) :
     /\ reservations[i].status \in ACTIVE
     /\ tableId \in reservations[i].tableIds
     /\ reservations[i].start < endT
     /\ startT < reservations[i].end

C19_Step(p) ==
  LET fit == sortBestFit(getEligibleTables(proc[p].sectorId, proc[p].partySize),
                         proc[p].partySize)
      taken(t) == C19_Taken(t, proc[p].start, proc[p].end)
  IN /\ (proc[p].kind = "create" /\ proc[p].pc = "assign" /\ proc'[p].pc = "expire") =>
           /\ proc'[p].tableIds # {}
           /\ \A t \in proc'[p].tableIds : ~taken(t)
           /\ \A k \in 1..Len(fit) :
                 ~taken(fit[k].id) =>
                    \E m \in 1..k : fit[m].id \in proc'[p].tableIds
     /\ (proc[p].kind = "create" /\ proc[p].pc = "assign" /\ proc'[p].pc = "release") =>
           \A k \in 1..Len(fit) : taken(fit[k].id)
     /\ (proc[p].kind = "create" /\ proc[p].pc = "insert" /\ proc'[p].pc = "release") =>
           /\ Len(reservations') = Len(reservations) + 1
           /\ SubSeq(reservations', 1, Len(reservations)) = reservations

C19_HalfOpenOccupancy == [][\A p \in Procs : C19_Step(p)]_vars

(* Two CONFIRMED or PENDING reservations on one table, the second starting *)
(* exactly where the first ends.                                           *)
C19_Witness ==
  \E i \in 1..Len(reservations) : \E j \in 1..Len(reservations) :
     /\ reservations[i].status \in ACTIVE
     /\ reservations[j].status \in ACTIVE
     /\ reservations[i].tableIds \cap reservations[j].tableIds # {}
     /\ reservations[i].end = reservations[j].start

(***************************************************************************)
(* C20: a table set returned by assignTable has at least one and at most   *)
(* MAX_TABLES tables, all of the requested sector; the party fits (one     *)
(* table: minSize <= partySize <= maxSize; several: sum of minSize <=      *)
(* partySize <= sum of maxSize); and no CONFIRMED or PENDING reservation   *)
(* other than the excluded one uses one of the tables in an interval that  *)
(* overlaps [start, start + duration).  (A null return is the empty set.)  *)
(***************************************************************************)
TablesOf(ids) == SelectSeq(Tables, LAMBDA t : t.id \in ids)

C20_Returned(p) ==
  /\ proc[p].kind = "assignTable"
  /\ proc[p].pc = "returned"
  /\ proc[p].tableIds # {}

C20_AssignedSetIsValid ==
  \A p \in Procs :
     C20_Returned(p) =>
        LET ids == proc[p].tableIds
            ts == TablesOf(ids)
        IN /\ Cardinality(ids) >= 1
           /\ Cardinality(ids) <= MAX_TABLES
           /\ Len(ts) = Cardinality(ids)
           /\ \A k \in 1..Len(ts) : ts[k].sectorId = proc[p].sectorId
           /\ SumMin(ts) <= proc[p].partySize
           /\ proc[p].partySize <= SumMax(ts)
           /\ \A i \in 1..Len(reservations) :
                 ( /\ reservations[i].status \in ACTIVE
                   /\ i # proc[p].id
                   /\ reservations[i].tableIds \cap ids # {} )
                 => ~Intersects(reservations[i].start, reservations[i].end,
                                proc[p].start, proc[p].end)

(* assignTable returned MAX_TABLES tables although the store has a         *)
(* CONFIRMED or PENDING reservation in the requested sector that overlaps  *)
(* the request.                                                            *)
C20_Witness ==
  \E p \in Procs :
     /\ C20_Returned(p)
     /\ Cardinality(proc[p].tableIds) = MAX_TABLES
     /\ \E i \in 1..Len(reservations) :
           /\ reservations[i].status \in ACTIVE
           /\ reservations[i].sectorId = proc[p].sectorId
           /\ Intersects(reservations[i].start, reservations[i].end,
                         proc[p].start, proc[p].end)

(***************************************************************************)
(* C21: the table assignment of a create returns none exactly when no      *)
(* table of the sector with minSize <= partySize <= maxSize is free for    *)
(* the interval and no set of 2 to MAX_TABLES tables of the sector with    *)
(* sum(minSize) <= partySize <= sum(maxSize) is entirely free for it; the  *)
(* create is then answered 409 and none of its steps changes the store.    *)
(***************************************************************************)
C21_Free(ids, startT, endT) ==
  \A i \in 1..Len(reservations) :
     (reservations[i].status \in ACTIVE /\ reservations[i].tableIds \cap ids # {})
        => ~Intersects(reservations[i].start, reservations[i].end, startT, endT)

C21_Fits(ids, partySize) ==
  /\ SumMin(TablesOf(ids)) <= partySize
  /\ partySize <= SumMax(TablesOf(ids))

C21_NoneExpected(sectorId, partySize, startT, endT) ==
  \A ids \in SUBSET IdsOf(getTablesBySector(sectorId)) :
     ( /\ Cardinality(ids) >= 1
       /\ Cardinality(ids) <= MAX_TABLES
       /\ C21_Fits(ids, partySize) )
     => ~C21_Free(ids, startT, endT)

C21_Step(p) ==
  /\ (proc[p].kind = "create" /\ proc[p].pc = "assign" /\ proc'[p].pc # "assign") =>
        ( (proc'[p].pc = "release" /\ proc'[p].out = 409)
          <=> C21_NoneExpected(proc[p].sectorId, proc[p].partySize,
                               proc[p].start, proc[p].end) )
  /\ (proc[p].kind = "create" /\ proc[p].detail = "no table" /\ proc'[p] # proc[p]) =>
        /\ reservations' = reservations
        /\ proc'[p].pc = "idle" => resp'[p].status = 409

C21_NoneExactlyWhenNothingFits == [][\A p \in Procs : C21_Step(p)]_vars

(* A create is being refused for lack of a table although its sector has   *)
(* a set of at most MAX_TABLES tables with the capacity for its party:     *)
(* every such set is taken.                                                *)
C21_Witness ==
  \E p \in Procs :
     /\ proc[p].kind = "create"
     /\ proc[p].pc = "release"
     /\ proc[p].detail = "no table"
     /\ \E ids \in SUBSET IdsOf(getTablesBySector(proc[p].sectorId)) :
           /\ ids # {}
           /\ Cardinality(ids) <= MAX_TABLES
           /\ C21_Fits(ids, proc[p].partySize)

(***************************************************************************)
(* C22: when a table of the sector with minSize <= partySize <= maxSize    *)
(* is free for the interval, assignTable returns exactly one table: a free *)
(* eligible table whose maxSize - partySize is the smallest among the free *)
(* eligible tables.                                                        *)
(***************************************************************************)
C22_FreeEligible(p) ==
  LET eligible == getEligibleTables(proc[p].sectorId, proc[p].partySize)
  IN {eligible[k] : k \in
        {k \in 1..Len(eligible) :
           \A i \in 1..Len(reservations) :
              ( /\ reservations[i].status \in ACTIVE
                /\ i # proc[p].id
                /\ eligible[k].id \in reservations[i].tableIds )
              => ~Intersects(reservations[i].start, reservations[i].end,
                             proc[p].start, proc[p].end)}}

C22_SingleBestFit ==
  \A p \in Procs :
     ( /\ proc[p].kind = "assignTable"
       /\ proc[p].pc = "returned"
       /\ C22_FreeEligible(p) # {} )
     => \E t \in C22_FreeEligible(p) :
           /\ proc[p].tableIds = {t.id}
           /\ \A u \in C22_FreeEligible(p) :
                 t.maxSize - proc[p].partySize <= u.maxSize - proc[p].partySize

(* assignTable returned one table although a table that comes earlier in   *)
(* the store's order is free and eligible too, with more room to spare.    *)
C22_Witness ==
  \E p \in Procs :
     /\ proc[p].kind = "assignTable"
     /\ proc[p].pc = "returned"
     /\ \E t \in C22_FreeEligible(p) : \E u \in C22_FreeEligible(p) :
           /\ proc[p].tableIds = {t.id}
           /\ u.maxSize > t.maxSize
           /\ \E a \in 1..Len(Tables) : \E c \in 1..Len(Tables) :
                 a < c /\ Tables[a] = u /\ Tables[c] = t

(***************************************************************************)
(* C23: in every availability report, no table listed for a slot is        *)
(* assigned to a CONFIRMED or PENDING reservation of the sector whose      *)
(* interval overlaps [slot, slot + duration), whatever the start of that   *)
(* reservation; and every table that fits the party and has no such        *)
(* reservation (none, or only CANCELLED ones) is listed, the slot being    *)
(* reported available.                                                     *)
(***************************************************************************)
C23_Reported(p) ==
  /\ resp'[p] # resp[p]
  /\ resp'[p].status = 200
  /\ "slots" \in DOMAIN resp'[p].body

C23_Occupied(tableId, sectorId, slotStart, slotEnd) ==
  \E i \in 1..Len(reservations) :
     /\ reservations[i].status \in ACTIVE
     /\ reservations[i].sectorId = sectorId
     /\ tableId \in reservations[i].tableIds
     /\ Intersects(reservations[i].start, reservations[i].end, slotStart, slotEnd)

C23_Step(p) ==
  C23_Reported(p) =>
     LET report == resp'[p].body
         fit == getEligibleTables(report.sectorId, report.partySize)
     IN \A k \in 1..Len(report.slots) :
           LET slot == report.slots[k]
               slotEnd == slot.start + DurationOf(report.partySize)
           IN /\ \A t \in slot.tables :
                    ~C23_Occupied(t, report.sectorId, slot.start, slotEnd)
              /\ \A f \in 1..Len(fit) :
                    ~C23_Occupied(fit[f].id, report.sectorId, slot.start, slotEnd)
                       => (slot.available /\ fit[f].id \in slot.tables)

C23_ReportReflectsStore == [][\A p \in Procs : C23_Step(p)]_vars

(***************************************************************************)
(* C24: an expire sweep at time now turns every reservation that is        *)
(* PENDING with expiresAt < now into CANCELLED, changes nothing else of    *)
(* those rows and nothing at all of any other row, leaves no PENDING row   *)
(* with expiresAt < now, and answers with the number of rows it moved to   *)
(* CANCELLED.                                                              *)
(***************************************************************************)
C24_Swept(p) ==
  /\ resp'[p] # resp[p]
  /\ resp'[p].status = 200
  /\ "expiredCount" \in DOMAIN resp'[p].body

C24_Due(r) == r.status = "PENDING" /\ r.expiresAt # None /\ r.expiresAt < now

C24_Step(p) ==
  C24_Swept(p) =>
     /\ Len(reservations') = Len(reservations)
     /\ \A i \in 1..Len(reservations) :
           IF C24_Due(reservations[i])
           THEN reservations'[i] = [reservations[i] EXCEPT !.status = "CANCELLED"]
           ELSE reservations'[i] = reservations[i]
     /\ \A i \in 1..Len(reservations') :
           ~( /\ reservations'[i].status = "PENDING"
              /\ reservations'[i].expiresAt # None
              /\ reservations'[i].expiresAt < now )
     /\ resp'[p].body.expiredCount =
           Cardinality({i \in 1..Len(reservations) :
                          /\ reservations[i].status # "CANCELLED"
                          /\ reservations'[i].status = "CANCELLED"})

C24_SweepCancelsExactlyTheExpired == [][\A p \in Procs : C24_Step(p)]_vars

(* A sweep answered that it expired a hold, and the store has a hold that  *)
(* it left PENDING because its expiresAt is not before now.                *)
C24_Witness ==
  \E p \in Procs :
     /\ resp[p].status = 200
     /\ "expiredCount" \in DOMAIN resp[p].body
     /\ resp[p].body.expiredCount >= 1
     /\ \E i \in 1..Len(reservations) :
           reservations[i].status = "PENDING" /\ reservations[i].expiresAt >= now
     /\ \E i \in 1..Len(reservations) :
           reservations[i].status = "CANCELLED" /\ reservations[i].expiresAt # None

(***************************************************************************)
(* C25: approve and reject act only on PENDING reservations.  A write of   *)
(* approve or reject lands on a reservation that is PENDING at that moment *)
(* and stores CONFIRMED resp. CANCELLED with expiresAt null, touching no   *)
(* other row; an approve or reject answered 404 or 400 changes nothing.    *)
(***************************************************************************)
C25_Writes(p) ==
  /\ proc[p].kind \in {"approve", "reject"}
  /\ proc[p].pc \in {"approve", "reject"}
  /\ proc'[p].pc = "idle"

C25_Step(p) ==
  /\ C25_Writes(p) =>
        LET id == proc[p].id
            old == reservations[id]
        IN /\ old.status = "PENDING"
           /\ reservations' =
                 [reservations EXCEPT
                    ![id].status = IF proc[p].kind = "approve" THEN "CONFIRMED"
                                   ELSE "CANCELLED",
                    ![id].expiresAt = None]
           /\ resp'[p].status = 200
  /\ (resp'[p] # resp[p] /\ resp'[p].status \in {400, 404}) =>
        reservations' = reservations

C25_ApproveRejectOnlyPending == [][\A p \in Procs : C25_Step(p)]_vars

(***************************************************************************)
(* C26: cancel is idempotent.  A cancel request that finds the reservation *)
(* already CANCELLED is answered with success (204) at once and leaves     *)
(* every stored field of every reservation as it was.                      *)
(***************************************************************************)
C26_Step(p, id) ==
  (CancelBegin(p, id) /\ id <= Len(reservations) /\ reservations[id].status = "CANCELLED")
    => /\ resp'[p].status = 204
       /\ proc'[p].pc = "idle"
       /\ reservations' = reservations

C26_CancelIsIdempotent == [][\A p \in Procs, id \in 1..MaxRes : C26_Step(p, id)]_vars

(* Three cancels of the only reservation are over: two clients can have    *)
(* read it while it was not cancelled, the third found it CANCELLED.       *)
C26_Witness ==
  /\ Len(reservations) = 1
  /\ reservations[1].status = "CANCELLED"
  /\ ops = 3
  /\ \A p \in Procs : proc[p].pc = "idle"
  /\ \E p \in Procs : resp[p].status = 204

(***************************************************************************)
(* C27: non-2xx responses are not cached.  A keyed request that is         *)
(* answered with a non-2xx status leaves the idempotency store as it was;  *)
(* a record appears in the store only together with the 2xx answer whose   *)
(* payload it holds; and a request is answered from the store only when    *)
(* its key has a record, so after a failure the same key is processed      *)
(* normally.                                                               *)
(***************************************************************************)
C27_Success == {200, 201, 204}

C27_Answered(p) == resp'[p] # resp[p] /\ resp'[p] # NoResp

C27_Step ==
  /\ \A p \in Procs :
        (C27_Answered(p) /\ resp'[p].key # NoKey /\ resp'[p].status \notin C27_Success)
           => idempotencyKeys' = idempotencyKeys
  /\ \A k \in DOMAIN idempotencyKeys' \ DOMAIN idempotencyKeys :
        \E p \in Procs :
           /\ C27_Answered(p)
           /\ resp'[p].key = k
           /\ resp'[p].status \in C27_Success
           /\ resp'[p].body = idempotencyKeys'[k]
  /\ \A p \in Procs :
        (C27_Answered(p) /\ resp'[p].cached) => resp'[p].key \in DOMAIN idempotencyKeys

C27_FailuresAreNotCached == [][C27_Step]_vars

(* An update with key k was answered 404 while its reservation did not     *)
(* exist yet; the reservation was created afterwards and another update    *)
(* with the same key was then carried out on it, not answered from the     *)
(* store.                                                                  *)
C27_Witness ==
  \E p, q \in Procs :
     /\ p # q
     /\ resp[p].status = 404
     /\ resp[p].key # NoKey
     /\ resp[q].key = resp[p].key
     /\ resp[q].status = 200
     /\ ~resp[q].cached
     /\ Len(reservations) = MaxRes
     /\ resp[q].body.id = Len(reservations)

(***************************************************************************)
(* C28: the day query returns exactly the CONFIRMED and PENDING            *)
(* reservations (of the sector, if one is given) whose start instant lies  *)
(* in [dayStartUTC, dayStartUTC + 24h), dayStartUTC being the local        *)
(* midnight of the date: none of them is omitted, whatever its start, and  *)
(* no other reservation is returned.                                       *)
(***************************************************************************)
C28_InDay(r, date) ==
  LET dayStartUTC == date * DAY_MINUTES - Restaurant.tzOffsetMinutes
  IN /\ r.start >= dayStartUTC
     /\ r.start < dayStartUTC + DAY_MINUTES

C28_Expected(date, sectorId) ==
  {i \in 1..Len(reservations) :
     /\ reservations[i].status \in {"CONFIRMED", "PENDING"}
     /\ (sectorId # "" => reservations[i].sectorId = sectorId)
     /\ C28_InDay(reservations[i], date)}

C28_DayQueryIsExact ==
  \A p \in Procs :
     (resp[p].status = 200 /\ "items" \in DOMAIN resp[p].body)
        => resp[p].body.items = C28_Expected(resp[p].body.date, resp[p].body.sectorId)

(***************************************************************************)
(* C29: a PENDING hold whose expiresAt is earlier than the current time    *)
(* never blocks a create.  The table assignment of a create gives what it  *)
(* would give if every expired hold were already CANCELLED: it is not      *)
(* refused for no capacity, and not given other tables, because of tables  *)
(* held only by expired holds.                                             *)
(***************************************************************************)
C29_WithoutExpired ==
  [i \in 1..Len(reservations) |->
     IF /\ reservations[i].status = "PENDING"
        /\ reservations[i].expiresAt # None
        /\ reservations[i].expiresAt < now
     THEN [reservations[i] EXCEPT !.status = "CANCELLED"]
     ELSE reservations[i]]

C29_Step(p) ==
  (proc[p].pc = "assign" /\ proc[p].kind = "create" /\ proc'[p].pc # "assign")
    => LET expected == assignTable(C29_WithoutExpired, proc[p].sectorId, proc[p].start,
                                   proc[p].partySize, DurationOf(proc[p].partySize), 0)
       IN IF expected = {}
          THEN proc'[p].out = 409
          ELSE proc'[p].out = 0 /\ proc'[p].tableIds = expected

C29_ExpiredHoldsDoNotBlock == [][\A p \in Procs : C29_Step(p)]_vars

(***************************************************************************)
(* C30: when two concurrent requests with the same idempotency key both    *)
(* miss the lookup and both finish processing, the record stored first is  *)
(* kept unchanged and the request that stores second answers its caller    *)
(* with that earlier record, not with an error or with its own result.     *)
(***************************************************************************)
C30_StoresSecond(p) ==
  /\ proc[p].pc = "store"
  /\ proc'[p].pc = "idle"
  /\ proc[p].key \in DOMAIN idempotencyKeys

C30_Step(p) ==
  C30_StoresSecond(p)
    => /\ idempotencyKeys' = idempotencyKeys
       /\ resp'[p].status \in {200, 201}
       /\ resp'[p].body = idempotencyKeys[proc[p].key]

C30_SecondStorerReturnsFirstRecord == [][\A p \in Procs : C30_Step(p)]_vars

(***************************************************************************)
(* C31: lock acquisition never deadlocks or mutually aborts.  An acquirer  *)
(* never waits for the other (its next command can always be issued),      *)
(* every acquisition ends, and of two concurrent acquirers it is never the *)
(* case that both fail, so at least one ends holding its whole key set.    *)
(***************************************************************************)
C31_Failed(p) == proc[p].pc \in {"undo", "busy"}

C31_Ended(p) == proc[p].pc \in {"held", "busy"}

C31_HoldsAll(p) ==
  LET keys == get15MinSlotsInRange(proc[p].start, proc[p].end)
  IN /\ proc[p].pc = "held"
     /\ \A i \in 1..Len(keys) :
           /\ lockKey(proc[p].sectorId, keys[i]) \in DOMAIN locks
           /\ locks[lockKey(proc[p].sectorId, keys[i])] = p

C31_NeverWaits ==
  \A p \in Procs : ~C31_Ended(p) => ENABLED (LockSet(p) \/ LockUndo(p))

C31_NotBothFail ==
  /\ \E p \in Procs : ~C31_Failed(p)
  /\ (\A p \in Procs : C31_Ended(p)) => \E p \in Procs : C31_HoldsAll(p)

C31_NoDeadlockNoMutualAbort ==
  /\ [](C31_NeverWaits /\ C31_NotBothFail)
  /\ <>(\A p \in Procs : C31_Ended(p))

(* The two acquirers met on a key: one was refused and has released what   *)
(* it had, the other holds its whole set.                                  *)
C31_Witness ==
  \E p, q \in Procs :
     /\ proc[p].pc = "busy"
     /\ proc[p].sacq > 0
     /\ proc[p].undone = proc[p].sacq
     /\ C31_HoldsAll(q)

(***************************************************************************)
(* C32: no lock is held forever.  Every lock key that has been set is      *)
(* eventually free again, also when its holder has crashed and never       *)
(* releases it, because the key expires; an expired key is free, so the    *)
(* next SET NX on it by another acquirer succeeds.                         *)
(***************************************************************************)
C32_ExpiryFrees ==
  \A key \in LockKeySpace :
     LockExpire(key) => /\ key \notin DOMAIN locks'
                        /\ \A q \in Procs : SetNX(locks', key, q)[key] = q

C32_NoLockHeldForever ==
  /\ \A key \in LockKeySpace : (key \in DOMAIN locks) ~> (key \notin DOMAIN locks)
  /\ [][C32_ExpiryFrees]_vars

(* A caller crashed while it held a key, and the other caller now holds    *)
(* that key.                                                               *)
C32_Witness ==
  \E p, q \in Procs :
     /\ p # q
     /\ proc[p].pc = "crashed"
     /\ proc[p].sacq > 0
     /\ proc[p].undone = 0
     /\ LET key == sectorKeys(proc[p].sectorId, proc[p].start, proc[p].end)[1]
        IN key \in DOMAIN locks /\ locks[key] = q

(***************************************************************************)
(* C33: table assignment is deterministic.  For the same sector, tables,   *)
(* reservations and request, a call returns the same table set whatever    *)
(* the order in which the store returns the tables: the set it returns     *)
(* when the tables come ordered by id.                                     *)
(***************************************************************************)
C33_Step(p) ==
  (proc[p].pc = "call" /\ proc'[p].pc = "returned")
    => proc'[p].tableIds =
          assignTable(reservations, proc[p].sectorId, proc[p].start, proc[p].partySize,
                      proc[p].end - proc[p].start, proc[p].id)

C33_AssignmentIsDeterministic == [][\A p \in Procs : C33_Step(p)]_vars

(***************************************************************************)
(* C34: when no single table fits and a combination is returned, it is    *)
(* the best one: no free feasible combination has fewer tables, and no     *)
(* free feasible combination of the same number of tables wastes less      *)
(* capacity (sum of maxSize minus the party size).                         *)
(***************************************************************************)
C34_FreeFeasible(p) ==
  {ids \in SUBSET IdsOf(getTablesBySector(proc[p].sectorId)) :
     /\ Cardinality(ids) >= 2
     /\ Cardinality(ids) <= MAX_TABLES
     /\ SumMin(TablesOf(ids)) <= proc[p].partySize
     /\ proc[p].partySize <= SumMax(TablesOf(ids))
     /\ \A i \in 1..Len(reservations) :
           ( /\ reservations[i].status \in ACTIVE
             /\ i # proc[p].id
             /\ reservations[i].tableIds \cap ids # {} )
           => ~Intersects(reservations[i].start, reservations[i].end,
                          proc[p].start, proc[p].end)}

C34_CombinationIsBest ==
  \A p \in Procs :
     ( /\ proc[p].kind = "assignTable"
       /\ proc[p].pc = "returned"
       /\ Cardinality(proc[p].tableIds) >= 2 )
     => \A ids \in C34_FreeFeasible(p) :
           /\ Cardinality(ids) >= Cardinality(proc[p].tableIds)
           /\ Cardinality(ids) = Cardinality(proc[p].tableIds)
                 => SumMax(TablesOf(ids)) >= SumMax(TablesOf(proc[p].tableIds))

(***************************************************************************)
(* C35: the in-memory availability check agrees with the store-backed      *)
(* assignment.  On the store a report is computed from, each slot of the   *)
(* report is marked available for the party size exactly when table        *)
(* assignment for the same sector, slot start, party size and duration     *)
(* returns a table set on that store.                                      *)
(***************************************************************************)
C35_Step(p) ==
  C23_Reported(p) =>
     LET report == resp'[p].body
     IN \A k \in 1..Len(report.slots) :
           report.slots[k].available
             <=> assignTable(reservations, report.sectorId, report.slots[k].start,
                             report.partySize, DurationOf(report.partySize), 0) # {}

C35_AvailabilityAgreesWithAssignment == [][\A p \in Procs : C35_Step(p)]_vars

(***************************************************************************)
(* C36: every slot start t generated for a shift [S, E) lies on the        *)
(* 15-minute grid from S, has S <= localTime(t) < E and t + D_max <= E,    *)
(* D_max being the longest duration the restaurant's rules give; a shift   *)
(* shorter than D_max gets no slot.                                        *)
(***************************************************************************)
C36_SlotsFitShift ==
  \A p \in Procs :
     (proc[p].kind = "generate15MinSlots" /\ proc[p].pc = "returned")
       => LET call == proc[p].body
              S == localTimeToUTC(call.date, call.shifts[1].start)
              E == localTimeToUTC(call.date, call.shifts[1].end)
          IN /\ \A k \in 1..Len(call.slots) :
                   LET t == call.slots[k]
                   IN /\ (t - S) % SLOT_MINUTES = 0
                      /\ S <= t
                      /\ t < E
                      /\ t + call.maxDuration <= E
             /\ (E - S < call.maxDuration) => call.slots = << >>

(***************************************************************************)
(* C37: if POST /reservations answers with an error (a non-2xx status),   *)
(* the request has persisted no reservation: whenever a create has         *)
(* inserted its reservation, the answer to its caller is the success       *)
(* response for it.                                                        *)
(***************************************************************************)
C37_Persisted(p) ==
  /\ proc[p].kind = "create"
  /\ proc[p].body # NoRes
  /\ proc[p].body.id \in 1..Len(reservations)

C37_Step(p) ==
  (proc[p].kind = "create" /\ proc[p].pc # "idle" /\ proc'[p].pc = "idle")
    => IF C37_Persisted(p)
       THEN resp'[p].status = 201 /\ resp'[p].body = proc[p].body
       ELSE resp'[p].status # 201

C37_ErrorMeansNothingPersisted == [][\A p \in Procs : C37_Step(p)]_vars

(* C38: every stored reservation's sector is a sector of the reservation's *)
(* restaurant: the sectors row its sectorId names carries the same         *)
(* restaurantId as the reservation.                                        *)
C38_SectorBelongsToRestaurant ==
  \A i \in 1..Len(reservations) :
     sectorRestaurantId(reservations[i].sectorId) = reservations[i].restaurantId

(***************************************************************************)
(* C39: an update that fails with an error leaves every stored field of    *)
(* the reservation as it was.  No step of an update other than its write   *)
(* changes the store, a request that is refused at once changes nothing,   *)
(* and an update that answers its caller with an error has not written.    *)
(***************************************************************************)
C39_Wrote(p) ==
  /\ proc[p].kind = "update"
  /\ proc[p].body # NoRes

C39_Step(p) ==
  /\ (proc[p].kind = "update" /\ proc'[p] # proc[p] /\ proc[p].pc # "write")
        => reservations' = reservations
  /\ (proc[p].pc = "idle" /\ proc'[p].pc = "idle" /\ resp'[p] # resp[p])
        => reservations' = reservations
  /\ (proc[p].kind = "update" /\ proc'[p].pc = "idle" /\ resp'[p].status >= 400)
        => ~C39_Wrote(p)

C39_FailedUpdateChangesNothing == [][\A p \in Procs : C39_Step(p)]_vars

(***************************************************************************)
(* C40: with no concurrent writer, every slot that the availability report *)
(* marks available for party size p can be booked: a create for the same   *)
(* sector, slot start and p on the store the report was computed from is   *)
(* not refused for lack of capacity, also when maxGuestsPerSlot is set.    *)
(***************************************************************************)
C40_Step(p) ==
  C23_Reported(p) =>
     LET report == resp'[p].body
     IN \A k \in 1..Len(report.slots) :
           report.slots[k].available
             => ~createNoCapacity(reservations, maxGuestsPerSlot, report.sectorId,
                                  report.slots[k].start, report.partySize)

C40_AvailableSlotsAreBookable == [][\A p \in Procs : C40_Step(p)]_vars

====
